---- MODULE Spec2Model ----
(***************************************************************************)
(* Guitar-to-Bass plugin (tjolr/VST_Plugins): the pitch tracking, chord     *)
(* root debounce, overlap window and per-block processing of                *)
(* PluginProcessor.cpp, as state machines.                                  *)
(*                                                                          *)
(* Units.  Frequencies are integers in centi-Hertz (8241 = 82.41 Hz).       *)
(* Confidences and amplitudes are integers in thousandths (1000 = 1.0).     *)
(* Levels compared against the 0.001 floor are in millionths.              *)
(***************************************************************************)
EXTENDS Integers, Sequences, FiniteSets, TLC

VARIABLES
    \* ---- ChordRootDetector (PluginProcessor.h 172-183)
    currentSampleCount_, currentChord_, pendingChord_, stabilityBuffer_,
    bufferWriteIndex_, bufferFull_,
    \* ---- observation of the last analyzeNotes call
    chordReturned,      \* the ChordInfo analyzeNotes returned
    chordStableResult,  \* what isChordStable answered in that call
    rootHistory,        \* root midi note of every newChord since the last reset
    chordLastInput,     \* the frequency list of the last call
    chordSwitches,      \* calls whose input differed from the call before, and resets
    chordResets,        \* reset() calls so far
    \* ---- YINPitchDetector overlap window (PluginProcessor.h 94-102)
    bufferSize_, hopSize_, analysisBuffer_, writeIndex_, bufferReady_,
    samplesPushed,      \* samples handed to processOverlappingWindow so far
    storeOutOfRange,    \* a store into analysisBuffer_ was outside the vector
    \* ---- root selection applied to one candidate list
    candidates,         \* the candidate frequencies
    selectedRoot,       \* rootNote of the chord analyzeNotes builds from them
    selectedLowest,     \* what findLowestPitch returned for them
    selectCalls,        \* which of the two, "root" and "lowest", have been applied
    \* ---- GuitarToBassAudioProcessor and the objects prepareToPlay creates
    prepared,               \* pitchDetector_, instrumentSynthesizer_, chordDetector_, bassMapper_ exist
    currentBlockSize_,
    totalNumInputChannels, totalNumOutputChannels,
    hostBlockSize,          \* the samplesPerBlock the host passes to prepareToPlay
    lastPitch_, consecutiveDetections_, pitchConfidence_,   \* YINPitchDetector
    synth,                  \* *instrumentSynthesizer_, a record of its fields
    currentPitch_,
    processorChord_,        \* GuitarToBassAudioProcessor::currentChord_
    currentDetectedNotes_, currentBassNote_,
    inputLevel_, outputLevel_,
    currentMidiNote_, midiNoteOn_, midiNoteVelocity_,
    \* ---- observation of the last processBlock call
    bufferContent,          \* what each channel of the AudioBuffer holds on return
    midiEvents,             \* the events the call added to the MidiBuffer
    blockPath,              \* the path the call took
    blockInput,             \* the block it was given
    pitchBefore,            \* lastPitch_ when the call began
    pitchReturned,          \* what detectPitch returned in the call
    blocksProcessed,        \* processBlock calls so far
    irregularEvents,        \* blocks other than the steady one, and repeated prepareToPlay
    steadyInput,            \* the block the run holds steadily
    \* ---- YINPitchDetector: the indices one run uses on its vectors
    vectorSize,             \* size() of each vector after construction
    cursor,                 \* writeIndex_ and bufferReady_, without the samples
    indexFaults,            \* the accesses of the last call outside their vector
    indexCalls,             \* processBlock calls so far
    indexBlock,             \* the last call: its numSamples, and whether the spectrum gave a pitch
    \* ---- audio thread (processBlock) and message thread (timerCallback)
    audioPc, guiPc,         \* the next step of each thread
    raceBlock,              \* the block processBlock is working on
    guiPitch, guiInputLevel, guiOutputLevel,    \* timerCallback's locals
    unsynchronizedReads,    \* members read while their plain write was pending
    raceBlocks, timerCalls, \* calls of each so far
    \* ---- MultiInstrumentSynthesizer driven call by call (the record is synth)
    synthOut,               \* what the last renderBlock call wrote
    synthTrace,             \* the last three calls
    synthBefore,            \* the synthesizer before the last call
    synthOps,               \* calls so far
    \* ---- YINPitchDetector: the analysis of one window
    yinDetector,            \* lastPitch_, consecutiveDetections_, pitchConfidence_, the two YIN buffers
    yinResult,              \* the last analysis: the window and what it gave
    yinCalls,               \* analyses so far
    \* ---- YINPitchDetector: a held pitch and a steady new observation
    relockHeld,             \* lastPitch_ when the observation began
    relockObservation,      \* what the YIN analysis gives in every call
    relockDetector,         \* lastPitch_, consecutiveDetections_, pitchConfidence_
    \* ---- a function applied to one input
    pureOp,                 \* the function applied, "none" before
    pureInput,              \* its argument
    pureOutput              \* its result

chordVars == <<currentSampleCount_, currentChord_, pendingChord_, stabilityBuffer_,
               bufferWriteIndex_, bufferFull_, chordReturned, chordStableResult,
               rootHistory, chordLastInput, chordSwitches, chordResets>>

windowVars == <<bufferSize_, hopSize_, analysisBuffer_, writeIndex_, bufferReady_,
                samplesPushed, storeOutOfRange>>

selectVars == <<candidates, selectedRoot, selectedLowest, selectCalls>>

procVars == <<prepared, currentBlockSize_, totalNumInputChannels, totalNumOutputChannels,
              hostBlockSize, lastPitch_, consecutiveDetections_, pitchConfidence_, synth,
              currentPitch_, processorChord_, currentDetectedNotes_, currentBassNote_,
              inputLevel_, outputLevel_, currentMidiNote_, midiNoteOn_,
              midiNoteVelocity_, bufferContent, midiEvents, blockPath, blockInput,
              pitchBefore, pitchReturned, blocksProcessed, irregularEvents, steadyInput>>

indexVars == <<vectorSize, cursor, indexFaults, indexCalls, indexBlock>>

raceVars == <<audioPc, guiPc, raceBlock, guiPitch, guiInputLevel, guiOutputLevel,
              unsynchronizedReads, raceBlocks, timerCalls>>

voiceVars == <<synthOut, synthTrace, synthBefore, synthOps>>

yinVars == <<yinDetector, yinResult, yinCalls>>

relockVars == <<relockHeld, relockObservation, relockDetector>>

pureVars == <<pureOp, pureInput, pureOutput>>

vars == <<chordVars, windowVars, selectVars, procVars, indexVars, raceVars, voiceVars,
          yinVars, relockVars, pureVars>>

\* ------------------------------------------------------------------ bounds
MaxCalls == 14          \* analyzeNotes calls between two resets
MaxSwitches == 2        \* input changes (a call whose input differs from the one before) and resets
MaxSamplesPerBlock == 4 \* samplesPerBlock given to prepareToPlay in the window model
MaxBlockSamples == 9    \* numSamples of one processOverlappingWindow call
MaxPushed == 32         \* samples pushed in total
MaxCandidates == 3      \* length of a candidate list in the root selection model
MaxBlocks == 11         \* processBlock calls of one run
MaxIrregular == 1       \* blocks other than the steady one, and repeated prepareToPlay
MaxIndexCalls == 3      \* processBlock calls of one index audit
MaxRaceBlocks == 2      \* processBlock calls run against the timer
MaxTimerCalls == 2      \* timerCallback calls run against processBlock
MaxSynthOps == 5        \* calls made on one synthesizer
MaxYinCalls == 2        \* analyses made by one detector
MaxDetections == 5      \* consecutive accepted analyses followed
MaxThresholdSize == 6   \* size of cumulativeBuffer_ given to getAbsoluteThreshold
MaxRootNote == 127      \* highest MIDI note of a chord root
MaxPeakBin == 12        \* highest spectrum bin that carries a magnitude

\* ------------------------------------------------------- program constants
stabilityBufferSize_ == 10
chordChangeThreshold_ == 2

\* ------------------------------------------------------------ small helpers
Abs(x) == IF x < 0 THEN -x ELSE x

MinOf(a, b) == IF a < b THEN a ELSE b

MaxOf(a, b) == IF a > b THEN a ELSE b

\* Op applied to v, with v computed first: the sequencing of two statements
Then(v, Op(_)) == CHOOSE r \in {Op(x) : x \in {v}} : TRUE

\* ------------------------------------------------------------ NoteDetector
\* Lower edges, scaled by 2^19, of the twelve rounding intervals of the octave
\* that starts at MIDI note 0: entry m+1 is 440 * 2^((m - 69.5)/12) Hz in
\* centi-Hertz times 2^19.  round(69 + 12*log2(f/440)) = n exactly when f lies
\* between the edges of n, so the logarithm and the rounding are this lookup.
MidiEdges == <<416444569, 441207652, 467443224, 495238844, 524687278, 555886808,
               588941557, 623961845, 661064547, 700373490, 742019865, 786142662>>

MidiEdgeShift == 19

RECURSIVE OctaveNormalise(_, _)
\* doubles x until it reaches the reference octave; <<scaled value, doublings>>
OctaveNormalise(x, d) ==
    IF x >= MidiEdges[1] THEN <<x, d>> ELSE OctaveNormalise(2 * x, d + 1)

frequencyToMidiNote(frequency) ==
    IF frequency <= 0 THEN -1
    ELSE LET n == OctaveNormalise(frequency, 0)
             m == CHOOSE i \in 1..12 :
                     /\ MidiEdges[i] <= n[1]
                     /\ \A j \in 1..12 : MidiEdges[j] <= n[1] => j <= i
         IN 12 * (MidiEdgeShift - n[2]) + (m - 1)

NoteNames == <<"C", "C#", "D", "D#", "E", "F", "F#", "G", "G#", "A", "A#", "B">>

\* a note name is <<letter, octave>>; "---" for an invalid note
midiNoteToNoteName(midiNote) ==
    IF midiNote < 0 THEN <<"---">>
    ELSE <<NoteNames[(midiNote % 12) + 1], (midiNote \div 12) - 1>>

\* Note(freq, conf)
Note(freq, conf) ==
    [frequency |-> freq, midiNote |-> frequencyToMidiNote(freq),
     confidence |-> conf, noteName |-> midiNoteToNoteName(frequencyToMidiNote(freq))]

\* Note() = default
DefaultNote == [frequency |-> 0, midiNote |-> -1, confidence |-> 0, noteName |-> <<>>]

\* ChordInfo() = default
DefaultChord == [rootNote |-> DefaultNote, detectedNotes |-> <<>>,
                 confidence |-> 0, isStable |-> FALSE]

isValid(chord) == chord.rootNote.midiNote >= 0

\* ------------------------------------------------------- ChordRootDetector
RECURSIVE MinElementFrom(_, _, _)
\* std::min_element with comparator a.frequency < b.frequency: the first of the
\* smallest; best is the index kept so far, i the next index to look at
MinElementFrom(notes, best, i) ==
    IF i > Len(notes) THEN best
    ELSE MinElementFrom(notes,
                        IF notes[i].frequency < notes[best].frequency THEN i ELSE best,
                        i + 1)

findChordRootWrong(notes) ==
    IF notes = <<>> THEN DefaultNote ELSE notes[1]

findChordRoot(notes) ==
    IF notes = <<>> THEN DefaultNote
    ELSE notes[MinElementFrom(notes, 1, 2)]

RECURSIVE PositiveNotes(_)
\* the loop of analyzeNotes: a Note (confidence 1.0) for every frequency > 0
PositiveNotes(frequencies) ==
    IF frequencies = <<>> THEN <<>>
    ELSE IF Head(frequencies) > 0
            THEN <<Note(Head(frequencies), 1000)>> \o PositiveNotes(Tail(frequencies))
            ELSE PositiveNotes(Tail(frequencies))

NewChord(frequencies) ==
    LET detectedNotes == PositiveNotes(frequencies)
    IN [rootNote |-> IF detectedNotes # <<>> THEN findChordRoot(detectedNotes)
                     ELSE DefaultNote,
        detectedNotes |-> detectedNotes,
        confidence |-> IF detectedNotes # <<>> THEN 1000 \div Len(detectedNotes) ELSE 0,
        isStable |-> FALSE]

ConsistentCount(newChord, buffer) ==
    Cardinality({i \in 1..Len(buffer) :
        \/ /\ isValid(buffer[i]) /\ isValid(newChord)
           /\ Abs(newChord.rootNote.midiNote - buffer[i].rootNote.midiNote)
                 <= chordChangeThreshold_
        \/ /\ ~isValid(buffer[i]) /\ ~isValid(newChord)})

isChordStableNoDebounce(newChord, buffer, full) ==
    full /\ ConsistentCount(newChord, buffer) >= 1

isChordStableNoFill(newChord, buffer, full) ==
    10 * ConsistentCount(newChord, buffer) >= 8 * stabilityBufferSize_

\* a simple majority in place of the 80%
isChordStableMajority(newChord, buffer, full) ==
    /\ full
    /\ 10 * ConsistentCount(newChord, buffer) >= 5 * stabilityBufferSize_

\* consistentCount >= stabilityBufferSize_ * 0.8f
isChordStable(newChord, buffer, full) ==
    /\ full
    /\ 10 * ConsistentCount(newChord, buffer) >= 8 * stabilityBufferSize_

\* <<stabilityBuffer_, bufferWriteIndex_, bufferFull_>> after the update
updateStabilityBuffer(chord, buffer, writeIndex, full) ==
    LET next == (writeIndex + 1) % stabilityBufferSize_
    IN <<[buffer EXCEPT ![writeIndex + 1] = chord], next, full \/ next = 0>>

ChordInputs ==
    { <<8241, 10383, 12347>>,     \* E2 G#2 B2
      <<16481, 11000, 13081>>,    \* A2 lowest, not first
      <<9250, 0>>,                \* F#2, two semitones above E2, and a zero
      <<>> }

ChordInit ==
    /\ currentSampleCount_ = 0
    /\ currentChord_ = DefaultChord
    /\ pendingChord_ = DefaultChord
    /\ stabilityBuffer_ = [i \in 1..stabilityBufferSize_ |-> DefaultChord]
    /\ bufferWriteIndex_ = 0
    /\ bufferFull_ = FALSE
    /\ chordReturned = DefaultChord
    /\ chordStableResult = FALSE
    /\ rootHistory = <<>>
    /\ chordLastInput = <<>>
    /\ chordSwitches = 0
    /\ chordResets = 0

commitChordAlways(stable, newChord, current) ==
    [newChord EXCEPT !.isStable = TRUE]

\* if (isChordStable(newChord)) { newChord.isStable = true; currentChord_ = newChord; }
\* return currentChord_;
commitChord(stable, newChord, current) ==
    IF stable THEN [newChord EXCEPT !.isStable = TRUE] ELSE current

\* NewChord of every input of the model, evaluated once
ChordOfInput == [frequencies \in ChordInputs |-> NewChord(frequencies)]

\* the call's effect for the newChord it builds, as a record
analyzeNotesResult(newChord) ==
    LET upd == updateStabilityBuffer(newChord, stabilityBuffer_, bufferWriteIndex_,
                                     bufferFull_)
        stable == isChordStable(newChord, upd[1], upd[3])
    IN [buffer |-> upd[1], writeIndex |-> upd[2], full |-> upd[3], stable |-> stable,
        returned |-> commitChord(stable, newChord, currentChord_)]

analyzeNotesOf(newChord) ==
    LET r == analyzeNotesResult(newChord)
    IN /\ currentSampleCount_' = currentSampleCount_ + 1
       /\ stabilityBuffer_' = r.buffer
       /\ bufferWriteIndex_' = r.writeIndex
       /\ bufferFull_' = r.full
       /\ currentChord_' = r.returned
       /\ chordReturned' = r.returned
       /\ chordStableResult' = r.stable
       /\ rootHistory' = Append(rootHistory, newChord.rootNote.midiNote)
       /\ UNCHANGED pendingChord_

analyzeNotes(frequencies) == analyzeNotesOf(ChordOfInput[frequencies])

AnalyzeNotes ==
    \E frequencies \in ChordInputs :
        LET switch == IF currentSampleCount_ > 0 /\ frequencies # chordLastInput
                      THEN 1 ELSE 0
        IN /\ currentSampleCount_ < MaxCalls
           /\ chordSwitches + switch <= MaxSwitches
           /\ analyzeNotes(frequencies)
           /\ chordLastInput' = frequencies
           /\ chordSwitches' = chordSwitches + switch
           /\ UNCHANGED chordResets

ChordRootDetector_reset ==
    /\ chordSwitches < MaxSwitches
    /\ currentSampleCount_ > 0
    /\ currentChord_' = DefaultChord
    /\ pendingChord_' = DefaultChord
    /\ currentSampleCount_' = 0
    /\ bufferWriteIndex_' = 0
    /\ bufferFull_' = FALSE
    /\ stabilityBuffer_' = [i \in 1..stabilityBufferSize_ |-> DefaultChord]
    /\ rootHistory' = <<>>
    /\ chordResets' = chordResets + 1
    /\ chordSwitches' = chordSwitches + 1
    /\ UNCHANGED <<chordReturned, chordStableResult, chordLastInput>>

ChordIdle == ChordInit

\* ------------------------------------------- YINPitchDetector: overlap window
\* int pitchAnalysisSize = std::min(512, samplesPerBlock * 2)
pitchAnalysisSize(samplesPerBlock) == MinOf(512, samplesPerBlock * 2)

\* hopSize_ = static_cast<int>(bufferSize * (1.0f - overlapRatio_)), overlapRatio_ = 0.75
hopSizeOf(bufferSize) == bufferSize \div 4

\* memmove(data, data + hop, (size - hop) * sizeof(float)): the first size - hop
\* entries take the values hop places to their right, the last hop are untouched
memmoveLeft(buf, size, hop) ==
    [i \in 1..size |-> IF i <= size - hop THEN buf[i + hop] ELSE buf[i]]

memmoveNone(buf, size, hop) == buf

\* One pass of the loop body for sample x.  w is the 0-based write cursor.  A
\* store at a cursor outside the vector is undefined behaviour: it is recorded
\* in oob and the detector is not followed past it.
storeSample(s, x, size, hop) ==
    IF s.oob THEN s
    ELSE IF s.w < 0 \/ s.w >= size THEN [s EXCEPT !.oob = TRUE]
    ELSE LET stored == [s.buf EXCEPT ![s.w + 1] = x]
         IN IF s.w + 1 >= hop
               THEN [buf |-> memmoveLeft(stored, size, hop), w |-> size - hop,
                     ready |-> TRUE, oob |-> FALSE]
               ELSE [buf |-> stored, w |-> s.w + 1, ready |-> s.ready, oob |-> FALSE]

RECURSIVE storeSamples(_, _, _, _, _, _)
\* the loop over input[first .. first + count - 1], in order; the range is
\* halved so that the evaluation stays shallow for long blocks
storeSamples(s, input, first, count, size, hop) ==
    IF count = 0 THEN s
    ELSE IF count = 1 THEN storeSample(s, input[first], size, hop)
    ELSE Then(storeSamples(s, input, first, count \div 2, size, hop),
              LAMBDA half : storeSamples(half, input, first + count \div 2,
                                         count - count \div 2, size, hop))

processOverlappingWindow(s, input, size, hop) ==
    storeSamples(s, input, 1, Len(input), size, hop)

\* the window state after YINPitchDetector(bufferSize, sampleRate)
WindowConstructed(bufferSize) ==
    /\ bufferSize_ = bufferSize
    /\ hopSize_ = hopSizeOf(bufferSize)
    /\ analysisBuffer_ = [i \in 1..bufferSize |-> 0]
    /\ writeIndex_ = 0
    /\ bufferReady_ = FALSE
    /\ samplesPushed = 0
    /\ storeOutOfRange = FALSE

\* prepareToPlay with every samplesPerBlock of the model
WindowInit ==
    \E samplesPerBlock \in 1..MaxSamplesPerBlock :
        WindowConstructed(pitchAnalysisSize(samplesPerBlock))

WindowIdle == WindowConstructed(pitchAnalysisSize(1))

\* the samples are numbered 1, 2, 3, ... in arrival order (0 is the initial fill)
PushBlock ==
    \E numSamples \in 1..MaxBlockSamples :
        LET input == [i \in 1..numSamples |-> samplesPushed + i]
            s == processOverlappingWindow(
                     [buf |-> analysisBuffer_, w |-> writeIndex_,
                      ready |-> bufferReady_, oob |-> storeOutOfRange],
                     input, bufferSize_, hopSize_)
        IN /\ ~storeOutOfRange
           /\ samplesPushed + numSamples <= MaxPushed
           /\ analysisBuffer_' = s.buf
           /\ writeIndex_' = s.w
           /\ bufferReady_' = s.ready
           /\ storeOutOfRange' = s.oob
           /\ samplesPushed' = samplesPushed + numSamples
           /\ UNCHANGED <<bufferSize_, hopSize_>>

\* ------------------------------------------------------------ root selection
RECURSIVE MinFloatFrom(_, _, _)
\* std::min_element over floats: the smallest value
MinFloatFrom(pitches, best, i) ==
    IF i > Len(pitches) THEN best
    ELSE MinFloatFrom(pitches, IF pitches[i] < best THEN pitches[i] ELSE best, i + 1)

findLowestPitchFirst(pitches) ==
    IF pitches = <<>> THEN 0 ELSE pitches[1]

findLowestPitch(pitches) ==
    IF pitches = <<>> THEN 0 ELSE MinFloatFrom(pitches, pitches[1], 2)

CandidateFrequencies == {-5000, 0, 8241, 11000, 16481}

RECURSIVE SeqsUpTo(_, _)
SeqsUpTo(S, n) ==
    IF n = 0 THEN {<<>>}
    ELSE LET shorter == SeqsUpTo(S, n - 1)
         IN shorter \cup {Append(q, x) : q \in shorter, x \in S}

SelectInit ==
    /\ candidates \in SeqsUpTo(CandidateFrequencies, MaxCandidates)
    /\ selectedRoot = DefaultNote
    /\ selectedLowest = 0
    /\ selectCalls = {}

SelectIdle ==
    /\ candidates = <<>>
    /\ selectedRoot = DefaultNote
    /\ selectedLowest = 0
    /\ selectCalls = {}

\* the root analyzeNotes gives the chord of these candidates
SelectRoot ==
    /\ "root" \notin selectCalls
    /\ selectedRoot' = NewChord(candidates).rootNote
    /\ selectCalls' = selectCalls \cup {"root"}
    /\ UNCHANGED <<candidates, selectedLowest>>

SelectLowest ==
    /\ "lowest" \notin selectCalls
    /\ selectedLowest' = findLowestPitch(candidates)
    /\ selectCalls' = selectCalls \cup {"lowest"}
    /\ UNCHANGED <<candidates, selectedRoot>>

\* ------------------------------------------------ processBlock: block inputs
\* InstrumentMode
AnalogBass == 0

SynthBass == 1

Piano == 2

\* YINPitchDetector limits, in Hz and thousandths
minFreq_ == 70

maxFreq_ == 500

confidenceThreshold_ == 600

minConsecutiveDetections_ == 3

\* getSampleRate(): the host's rate, 44100 Hz throughout
sampleRate_ == 44100

\* What one processBlock call is given.  The samples themselves are not kept:
\* a block is described by what the signal analysis of the code computes from
\* them, which is an input of the model.
\*   inputNull     buffer.getReadPointer(0) is nullptr
\*   inputTest     the inputTest parameter is on
\*   short         the block has a quarter of samplesPerBlock samples
\*   rawRMS        rawInputRMS, in millionths
\*   boostedRMS    boostedInputRMS after gain and gate, in millionths
\*   blockPitches  detectMultiplePitches(gatedInput, numSamples)
\*   windowPitches detectMultiplePitches(analysisBuffer_, bufferSize_) in detectPitch
\*   yin           the YIN analysis of the window: found (periodIndex # -1),
\*                 refined (refinedPeriod > 0), frequency, confidence
\*   simplePitch   what the zero-crossing count of detectPitchSimple gives
\*   octaveShift, instrumentMode   the two parameters
NoYin == [found |-> FALSE, refined |-> FALSE, frequency |-> 0, confidence |-> 0]

Yin(frequency, confidence) ==
    [found |-> TRUE, refined |-> TRUE, frequency |-> frequency, confidence |-> confidence]

ToneE2 ==
    [inputNull |-> FALSE, inputTest |-> FALSE, short |-> FALSE,
     rawRMS |-> 50000, boostedRMS |-> 400000,
     blockPitches |-> <<8241, 10383, 12347>>, windowPitches |-> <<>>,
     yin |-> Yin(8241, 950), simplePitch |-> 0,
     octaveShift |-> 1, instrumentMode |-> SynthBass]

\* the blocks a run may hold steadily
SteadyInputs ==
    { ToneE2,
      [ToneE2 EXCEPT !.instrumentMode = Piano],
      [ToneE2 EXCEPT !.instrumentMode = AnalogBass, !.octaveShift = 0],
      [ToneE2 EXCEPT !.blockPitches = <<>>, !.yin = NoYin] }

\* every block of the model
ProcInputs ==
    SteadyInputs \cup
    { [ToneE2 EXCEPT !.rawRMS = 100, !.boostedRMS = 1000],       \* exactly at the floor
      [ToneE2 EXCEPT !.rawRMS = 0, !.boostedRMS = 0],            \* digital silence
      [ToneE2 EXCEPT !.rawRMS = 0, !.boostedRMS = 0,
                     !.instrumentMode = Piano],                  \* silence in piano mode
      [ToneE2 EXCEPT !.rawRMS = 900, !.boostedRMS = 9000,
                     !.instrumentMode = Piano],                  \* gate open, level meter below 0.001
      [ToneE2 EXCEPT !.inputNull = TRUE],
      [ToneE2 EXCEPT !.inputTest = TRUE, !.blockPitches = <<32963>>,
                     !.yin = Yin(33000, 900)],
      [ToneE2 EXCEPT !.short = TRUE],
      [ToneE2 EXCEPT !.blockPitches = <<11000, 16481>>, !.windowPitches = <<16481, 11000>>,
                     !.yin = NoYin],                             \* spectral peaks in the window
      [ToneE2 EXCEPT !.blockPitches = <<>>, !.windowPitches = <<60000>>, !.yin = NoYin],
      [ToneE2 EXCEPT !.blockPitches = <<>>, !.yin = Yin(60000, 950)],   \* 600 Hz
      [ToneE2 EXCEPT !.blockPitches = <<>>, !.yin = Yin(6500, 950)],    \* 65 Hz
      [ToneE2 EXCEPT !.blockPitches = <<>>,
                     !.yin = [found |-> TRUE, refined |-> FALSE,
                              frequency |-> 0, confidence |-> 0]],
      [ToneE2 EXCEPT !.yin = Yin(8241, 600)],                    \* confidence at the threshold
      [ToneE2 EXCEPT !.yin = Yin(22000, 950)],                   \* more than an octave up
      [ToneE2 EXCEPT !.yin = Yin(9250, 700)],                    \* two semitones, modest confidence
      [ToneE2 EXCEPT !.blockPitches = <<11000>>, !.yin = Yin(11000, 950),
                     !.instrumentMode = Piano],
      [ToneE2 EXCEPT !.blockPitches = <<>>, !.yin = NoYin, !.simplePitch = 20000] }

\* the bus layouts and block sizes of the model
ProcConfigs ==
    { [inputs |-> 1, outputs |-> 1, samplesPerBlock |-> 64],
      [inputs |-> 2, outputs |-> 2, samplesPerBlock |-> 2],
      [inputs |-> 1, outputs |-> 2, samplesPerBlock |-> 2],
      [inputs |-> 0, outputs |-> 2, samplesPerBlock |-> 2] }

\* buffer.getNumSamples() of a block
NumSamplesOf(d, samplesPerBlock) ==
    IF d.short THEN MaxOf(1, samplesPerBlock \div 4) ELSE samplesPerBlock

\* --------------------------------------------- YINPitchDetector::detectPitch
\* pitchRatio > 2.1f || pitchRatio < 0.48f
octaveJump(frequency, lastPitch) ==
    frequency * 10 > 21 * lastPitch \/ frequency * 100 < 48 * lastPitch

\* std::abs(1200 * log2(pitchRatio)) > 100: the ratio is beyond a semitone,
\* 2^(1/12) = 1.0595 and 2^(-1/12) = 0.9439
beyondSemitone(frequency, lastPitch) ==
    frequency * 10000 > 10595 * lastPitch \/ frequency * 10000 < 9439 * lastPitch

validatePitchCandidate(frequency, confidence, lastPitch) ==
    /\ ~(frequency < minFreq_ * 100 \/ frequency > maxFreq_ * 100)
    /\ ~(confidence < confidenceThreshold_)
    /\ lastPitch > 0 =>
          /\ ~octaveJump(frequency, lastPitch)
          /\ ~(beyondSemitone(frequency, lastPitch) /\ confidence < 800)

\* lastPitch_ * adaptiveSmoothing + frequency * (1 - adaptiveSmoothing), with
\* adaptiveSmoothing 0.3 when the relative difference exceeds 0.1, else 0.85
smoothedPitch(frequency, lastPitch) ==
    IF lastPitch > 0
    THEN IF Abs(frequency - lastPitch) * 10 > lastPitch
         THEN (lastPitch * 30 + frequency * 70) \div 100
         ELSE (lastPitch * 85 + frequency * 15) \div 100
    ELSE frequency

\* a spectral candidate given full confidence
pitchCandidateConfident(d) ==
    IF d.windowPitches # <<>> THEN <<findLowestPitch(d.windowPitches), 1000>>
    ELSE IF d.yin.found /\ d.yin.refined THEN <<d.yin.frequency, d.yin.confidence>>
    ELSE <<0, 0>>

\* the candidate <<frequency, confidence>> of one analysis
pitchCandidate(d) ==
    IF d.windowPitches # <<>> THEN <<findLowestPitch(d.windowPitches), 0>>
    ELSE IF d.yin.found /\ d.yin.refined THEN <<d.yin.frequency, d.yin.confidence>>
    ELSE <<0, 0>>

holdPitchZeroed(p) ==
    [p EXCEPT !.consecutiveDetections_ = 0, !.lastPitch_ = 0, !.returned = 0]

\* consecutiveDetections_ = 0; return lastPitch_;
holdPitch(p) ==
    [p EXCEPT !.consecutiveDetections_ = 0, !.returned = p.lastPitch_]

\* an update of the pitch at the first accepted analysis
enoughDetectionsAtOnce(n) == n >= 1

\* consecutiveDetections_ >= minConsecutiveDetections_
enoughDetections(n) == n >= minConsecutiveDetections_

\* p is the detector's pitch state <<lastPitch_, consecutiveDetections_,
\* pitchConfidence_>> as a record; the result adds what the call returned
detectPitch(p, ready, d) ==
    LET c == pitchCandidate(d)
        frequency == c[1]
        confidence == c[2]
    IN IF ~ready THEN [p EXCEPT !.returned = p.lastPitch_, !.analysed = FALSE]
       ELSE LET q == [p EXCEPT !.analysed = TRUE]
            IN IF frequency < minFreq_ * 100 \/ frequency > maxFreq_ * 100
               THEN holdPitch(q)
               ELSE IF ~validatePitchCandidate(frequency, confidence, p.lastPitch_)
               THEN holdPitch(q)
               ELSE IF frequency > 0 /\ confidence > confidenceThreshold_
               THEN LET n == p.consecutiveDetections_ + 1
                        accepted == enoughDetections(n)
                        pitch == IF accepted THEN smoothedPitch(frequency, p.lastPitch_)
                                 ELSE p.lastPitch_
                    IN [q EXCEPT !.consecutiveDetections_ = n,
                                 !.lastPitch_ = pitch,
                                 !.pitchConfidence_ =
                                     IF accepted THEN confidence ELSE p.pitchConfidence_,
                                 !.returned = pitch]
               ELSE holdPitch(q)

\* detectPitchSimple: 0 for fewer than 64 samples, else the zero-crossing
\* frequency when it lies in 80..400 Hz
detectPitchSimple(d, numSamples) ==
    IF d.inputNull \/ numSamples < 64 THEN 0
    ELSE IF d.simplePitch >= 8000 /\ d.simplePitch <= 40000 THEN d.simplePitch
    ELSE 0

\* ----------------------------------------------- MultiInstrumentSynthesizer
\* Units: frequency_ in centi-Hertz, amplitude_ in thousandths; phase_ and
\* analogPhase_ in millionths of a cycle (analogPhase_ is the code's radians
\* divided by 2*pi), phaseIncrement_ in millionths of a cycle per sample;
\* envelope_, envelopeTarget_ and lowPassState_ in millionths.
SynthConstructed ==
    [frequency_ |-> 44000, amplitude_ |-> 500, instrumentMode_ |-> SynthBass,
     wavetable_ |-> SynthBass, phase_ |-> 0, phaseIncrement_ |-> 0,
     analogPhase_ |-> 0, lowPassState_ |-> 0, envelope_ |-> 0, envelopeTarget_ |-> 0]

\* setFrequency restarting the oscillator
setFrequencyResetsPhase(s, frequency) ==
    [s EXCEPT !.frequency_ = frequency,
              !.phaseIncrement_ = (frequency * 10000) \div sampleRate_,
              !.envelopeTarget_ = IF frequency > 0 THEN 1000000 ELSE 0,
              !.phase_ = 0, !.analogPhase_ = 0]

\* phaseIncrement_ = frequency_ / sampleRate_
setFrequency(s, frequency) ==
    [s EXCEPT !.frequency_ = frequency,
              !.phaseIncrement_ = (frequency * 10000) \div sampleRate_,
              !.envelopeTarget_ = IF frequency > 0 THEN 1000000 ELSE 0]

\* juce::jlimit(0.0f, 1.0f, amplitude)
setAmplitude(s, amplitude) ==
    [s EXCEPT !.amplitude_ = MaxOf(0, MinOf(1000, amplitude))]

setInstrumentMode(s, mode) ==
    IF s.instrumentMode_ # mode
    THEN [s EXCEPT !.instrumentMode_ = mode,
                   !.wavetable_ = IF mode = AnalogBass THEN s.wavetable_ ELSE mode]
    ELSE s

synthResetKeepsEnvelope(s) ==
    [s EXCEPT !.phase_ = 0, !.analogPhase_ = 0, !.lowPassState_ = 0]

\* reset leaving the oscillator phase
synthResetKeepsPhase(s) ==
    [s EXCEPT !.envelope_ = 0, !.lowPassState_ = 0]

\* MultiInstrumentSynthesizer::reset
synthReset(s) ==
    [s EXCEPT !.phase_ = 0, !.analogPhase_ = 0, !.envelope_ = 0, !.lowPassState_ = 0]

\* one pass of renderBlock's sample loop: envelope, getNextSample's filter
\* state, phase advance
renderSample(s) ==
    LET envelope == s.envelope_ + (s.envelopeTarget_ - s.envelope_) \div 100
        wavetable == s.instrumentMode_ = SynthBass \/ s.instrumentMode_ = Piano
        sawtooth == 2 * s.analogPhase_ - 1000000
        lowPass == IF wavetable THEN s.lowPassState_
                   ELSE s.lowPassState_ + ((sawtooth - s.lowPassState_) * 3) \div 10
        phase == s.phase_ + s.phaseIncrement_
        analogPhase == s.analogPhase_ + s.phaseIncrement_
    IN [s EXCEPT !.envelope_ = envelope,
                 !.lowPassState_ = lowPass,
                 !.phase_ = IF ~wavetable THEN s.phase_
                            ELSE IF phase >= 1000000 THEN phase - 1000000 ELSE phase,
                 !.analogPhase_ = IF wavetable THEN s.analogPhase_
                                  ELSE IF analogPhase >= 1000000
                                       THEN analogPhase - 1000000 ELSE analogPhase]

RECURSIVE renderSamples(_, _)
\* n passes of the sample loop; n is halved so that the evaluation stays shallow
renderSamples(s, n) ==
    IF n = 0 THEN s
    ELSE IF n = 1 THEN renderSample(s)
    ELSE Then(renderSamples(s, n \div 2),
              LAMBDA half : renderSamples(half, n - n \div 2))

\* the synthesizer after renderBlock(output, numSamples)
renderBlock(s, numSamples) ==
    IF s.amplitude_ <= 0 THEN s ELSE renderSamples(s, numSamples)

RECURSIVE renderChannels(_, _, _)
\* the loop over the output channels: one renderBlock each
renderChannels(s, channels, numSamples) ==
    IF channels = 0 THEN s
    ELSE renderChannels(renderBlock(s, numSamples), channels - 1, numSamples)

\* what renderBlock writes
renderedContent(s) == IF s.amplitude_ <= 0 THEN "silence" ELSE "synth"

\* ------------------------------------------------------------ BassNoteMapper
DefaultBassNote == [frequency |-> 0, midiNote |-> -1, noteName |-> "", stringName |-> ""]

\* initializeBassTuning: E1, A1, D2, G2 with midiNoteToFrequency of each
bassTuning_ ==
    << [frequency |-> 4120, midiNote |-> 28, noteName |-> "E1", stringName |-> "E (4th string)"],
       [frequency |-> 5500, midiNote |-> 33, noteName |-> "A1", stringName |-> "A (3rd string)"],
       [frequency |-> 7342, midiNote |-> 38, noteName |-> "D2", stringName |-> "D (2nd string)"],
       [frequency |-> 9800, midiNote |-> 43, noteName |-> "G2", stringName |-> "G (1st string)"] >>

\* the switch over the note class
targetBassNote(noteClass) ==
    IF noteClass \in {0, 1, 2} THEN 38
    ELSE IF noteClass \in {3, 4} THEN 28
    ELSE IF noteClass \in {5, 6, 7} THEN 43
    ELSE 33

mapChordRootToBass(chordRoot) ==
    IF chordRoot.midiNote < 0 THEN DefaultBassNote
    ELSE LET target == targetBassNote(chordRoot.midiNote % 12)
         IN bassTuning_[CHOOSE i \in 1..Len(bassTuning_) : bassTuning_[i].midiNote = target]

\* ------------------------------------------------------- generateMidiOutput
\* juce::MidiMessage::noteOff(1, note)
noteOff(note) == [type |-> "noteOff", channel |-> 1, note |-> note, velocity |-> 0]

\* juce::MidiMessage::noteOn(1, note, velocity)
noteOn(note, velocity) ==
    [type |-> "noteOn", channel |-> 1, note |-> note, velocity |-> velocity]

\* generateMidiOutput without the test of the instrument mode
generateMidiOutputAnyMode(m, instrumentMode, chord, pitch, inputLevel) ==
    LET targetMidiNote == IF isValid(chord) /\ chord.isStable THEN chord.rootNote.midiNote
                          ELSE IF pitch > 0 THEN frequencyToMidiNote(pitch)
                          ELSE -1
        shouldPlayNote == targetMidiNote >= 0 /\ inputLevel > 1000
    IN IF shouldPlayNote /\ targetMidiNote # m.currentMidiNote_
       THEN [currentMidiNote_ |-> targetMidiNote, midiNoteOn_ |-> TRUE,
             midiNoteVelocity_ |-> 80,
             events |-> (IF m.midiNoteOn_ THEN <<noteOff(m.currentMidiNote_)>> ELSE <<>>)
                        \o <<noteOn(targetMidiNote, 80)>>]
       ELSE IF ~shouldPlayNote /\ m.midiNoteOn_
       THEN [m EXCEPT !.events = <<noteOff(m.currentMidiNote_)>>,
                      !.midiNoteOn_ = FALSE, !.currentMidiNote_ = -1]
       ELSE [m EXCEPT !.events = <<>>]

\* generateMidiOutput putting no note-off into the MidiBuffer
generateMidiOutputNoNoteOff(m, instrumentMode, chord, pitch, inputLevel) ==
    LET r == generateMidiOutputAnyMode(m, instrumentMode, chord, pitch, inputLevel)
        IsNoteOn(e) == e.type = "noteOn"
    IN [r EXCEPT !.events = SelectSeq(r.events, IsNoteOn)]

\* m is <<currentMidiNote_, midiNoteOn_, midiNoteVelocity_>> as a record; the
\* result adds the events put into the MidiBuffer
generateMidiOutput(m, instrumentMode, chord, pitch, inputLevel) ==
    IF instrumentMode # Piano
    THEN IF m.midiNoteOn_
         THEN [m EXCEPT !.events = <<noteOff(m.currentMidiNote_)>>,
                        !.midiNoteOn_ = FALSE, !.currentMidiNote_ = -1]
         ELSE [m EXCEPT !.events = <<>>]
    ELSE LET fromChord == isValid(chord) /\ chord.isStable
             targetMidiNote == IF fromChord THEN chord.rootNote.midiNote
                               ELSE IF pitch > 0 THEN frequencyToMidiNote(pitch)
                               ELSE -1
             noteVelocity == IF fromChord THEN MinOf(127, chord.confidence \div 10 + 60)
                             ELSE IF pitch > 0 THEN 80
                             ELSE 0
             shouldPlayNote == targetMidiNote >= 0 /\ inputLevel > 1000
         IN IF shouldPlayNote /\ targetMidiNote # m.currentMidiNote_
            THEN [currentMidiNote_ |-> targetMidiNote,
                  midiNoteOn_ |-> TRUE,
                  midiNoteVelocity_ |-> noteVelocity,
                  events |-> (IF m.midiNoteOn_ THEN <<noteOff(m.currentMidiNote_)>>
                              ELSE <<>>)
                             \o <<noteOn(targetMidiNote, noteVelocity)>>]
            ELSE IF ~shouldPlayNote /\ m.midiNoteOn_
            THEN [m EXCEPT !.events = <<noteOff(m.currentMidiNote_)>>,
                           !.midiNoteOn_ = FALSE, !.currentMidiNote_ = -1]
            ELSE [m EXCEPT !.events = <<>>]

\* --------------------------------------- GuitarToBassAudioProcessor: state
ProcConstructed ==
    /\ prepared = FALSE
    /\ currentBlockSize_ = 512
    /\ lastPitch_ = 0
    /\ consecutiveDetections_ = 0
    /\ pitchConfidence_ = 0
    /\ synth = SynthConstructed
    /\ currentPitch_ = 0
    /\ processorChord_ = DefaultChord
    /\ currentDetectedNotes_ = <<>>
    /\ currentBassNote_ = DefaultBassNote
    /\ inputLevel_ = 0
    /\ outputLevel_ = [of |-> "nothing"]
    /\ currentMidiNote_ = -1
    /\ midiNoteOn_ = FALSE
    /\ midiNoteVelocity_ = 0
    /\ midiEvents = <<>>
    /\ blockPath = "none"
    /\ blockInput = ToneE2
    /\ pitchBefore = 0
    /\ pitchReturned = 0
    /\ blocksProcessed = 0
    /\ irregularEvents = 0

ProcInit ==
    /\ ProcConstructed
    /\ \E c \in ProcConfigs :
          /\ totalNumInputChannels = c.inputs
          /\ totalNumOutputChannels = c.outputs
          /\ hostBlockSize = c.samplesPerBlock
          /\ bufferContent = [ch \in 1..MaxOf(c.inputs, c.outputs) |-> "nothing"]
    /\ steadyInput \in SteadyInputs

ProcIdle ==
    /\ ProcConstructed
    /\ totalNumInputChannels = 2
    /\ totalNumOutputChannels = 2
    /\ hostBlockSize = 2
    /\ bufferContent = [ch \in 1..2 |-> "nothing"]
    /\ steadyInput = ToneE2

\* prepareToPlay(sampleRate, samplesPerBlock): new detector, synthesizer, chord
\* detector and mapper; the processor's own fields are left as they are
PrepareToPlay ==
    LET irregular == IF prepared THEN 1 ELSE 0
        bufferSize == pitchAnalysisSize(hostBlockSize)
    IN /\ irregularEvents + irregular <= MaxIrregular
       /\ irregularEvents' = irregularEvents + irregular
       /\ prepared' = TRUE
       /\ currentBlockSize_' = hostBlockSize
       \* YINPitchDetector(pitchAnalysisSize, sampleRate)
       /\ bufferSize_' = bufferSize
       /\ hopSize_' = hopSizeOf(bufferSize)
       /\ analysisBuffer_' = [i \in 1..bufferSize |-> 0]
       /\ writeIndex_' = 0
       /\ bufferReady_' = FALSE
       /\ samplesPushed' = 0
       /\ storeOutOfRange' = FALSE
       /\ lastPitch_' = 0
       /\ consecutiveDetections_' = 0
       /\ pitchConfidence_' = 0
       \* MultiInstrumentSynthesizer(sampleRate)
       /\ synth' = SynthConstructed
       \* ChordRootDetector(sampleRate, 100.0f)
       /\ currentSampleCount_' = 0
       /\ currentChord_' = DefaultChord
       /\ pendingChord_' = DefaultChord
       /\ stabilityBuffer_' = [i \in 1..stabilityBufferSize_ |-> DefaultChord]
       /\ bufferWriteIndex_' = 0
       /\ bufferFull_' = FALSE
       /\ rootHistory' = <<>>
       /\ UNCHANGED <<chordReturned, chordStableResult, chordLastInput, chordSwitches,
                      chordResets>>
       /\ UNCHANGED <<totalNumInputChannels, totalNumOutputChannels, hostBlockSize,
                      currentPitch_, processorChord_, currentDetectedNotes_,
                      currentBassNote_, inputLevel_, outputLevel_, currentMidiNote_,
                      midiNoteOn_, midiNoteVelocity_, bufferContent, midiEvents,
                      blockPath, blockInput, pitchBefore, pitchReturned,
                      blocksProcessed, steadyInput>>

\* the buffer as processBlock finds it, after the unused output channels are
\* cleared and the test tone, when on, is written over the input channels
contentAtEntry(d) ==
    [ch \in 1..MaxOf(totalNumInputChannels, totalNumOutputChannels) |->
        IF ch > totalNumInputChannels THEN "cleared"
        ELSE IF d.inputTest THEN "testTone"
        ELSE "input"]

midiState ==
    [currentMidiNote_ |-> currentMidiNote_, midiNoteOn_ |-> midiNoteOn_,
     midiNoteVelocity_ |-> midiNoteVelocity_, events |-> <<>>]

\* generateMidiOutput at the end of processBlock
MidiOutput(d, chord, pitch, inputLevel) ==
    LET m == generateMidiOutput(midiState, d.instrumentMode, chord, pitch, inputLevel)
    IN /\ currentMidiNote_' = m.currentMidiNote_
       /\ midiNoteOn_' = m.midiNoteOn_
       /\ midiNoteVelocity_' = m.midiNoteVelocity_
       /\ midiEvents' = m.events

NoMidiOutput ==
    /\ midiEvents' = <<>>
    /\ UNCHANGED <<currentMidiNote_, midiNoteOn_, midiNoteVelocity_>>

detectorVars ==
    <<chordVars, windowVars, lastPitch_, consecutiveDetections_, pitchConfidence_>>

\* no input channel, or prepareToPlay has not run: the else branch
BlockSkipped(d) ==
    /\ blockPath' = "skipped"
    /\ bufferContent' = contentAtEntry(d)
    /\ MidiOutput(d, processorChord_, currentPitch_, inputLevel_)
    /\ pitchReturned' = 0
    /\ UNCHANGED <<detectorVars, synth, currentPitch_, processorChord_,
                   currentDetectedNotes_, currentBassNote_, inputLevel_, outputLevel_>>

\* inputData == nullptr: return
BlockNullInput(d) ==
    /\ blockPath' = "nullInput"
    /\ bufferContent' = contentAtEntry(d)
    /\ NoMidiOutput
    /\ pitchReturned' = 0
    /\ UNCHANGED <<detectorVars, synth, currentPitch_, processorChord_,
                   currentDetectedNotes_, currentBassNote_, inputLevel_, outputLevel_>>

\* !hasSignificantInput: clear pitch, silence the synthesizer, return
BlockGateClosed(d) ==
    /\ blockPath' = "gateClosed"
    /\ bufferContent' = contentAtEntry(d)
    /\ inputLevel_' = d.rawRMS
    /\ currentPitch_' = 0
    /\ synth' = synthReset(setAmplitude(synth, 0))
    /\ NoMidiOutput
    /\ pitchReturned' = 0
    /\ UNCHANGED <<detectorVars, processorChord_, currentDetectedNotes_,
                   currentBassNote_, outputLevel_>>

\* detectedPitches and primaryPitch after the YIN result and the fallback to
\* detectPitchSimple; returned is what detectPitch returned
selectPitches(d, numSamples, returned) ==
    LET yinPitches == IF d.blockPitches = <<>> /\ returned > 0
                      THEN <<returned>> ELSE d.blockPitches
        simplePitch == IF yinPitches = <<>> /\ returned <= 0
                       THEN detectPitchSimple(d, numSamples) ELSE 0
    IN IF simplePitch > 0
       THEN [detectedPitches |-> <<simplePitch>>, primaryPitch |-> simplePitch]
       ELSE [detectedPitches |-> yinPitches, primaryPitch |-> returned]

\* currentChord_ = chordDetector_->analyzeNotes(detectedPitches), when there
\* is a pitch to analyse
blockChord(detectedPitches) ==
    IF detectedPitches # <<>>
    THEN analyzeNotesResult(NewChord(detectedPitches)).returned
    ELSE processorChord_

\* currentBassNote_ and targetPitch
blockTarget(chord, sel) ==
    IF sel.detectedPitches # <<>> /\ isValid(chord) /\ chord.isStable
    THEN [bassNote |-> mapChordRootToBass(chord.rootNote),
          targetPitch |-> mapChordRootToBass(chord.rootNote).frequency]
    ELSE [bassNote |-> currentBassNote_,
          targetPitch |-> IF sel.primaryPitch > 0 THEN sel.primaryPitch
                          ELSE IF sel.detectedPitches # <<>> THEN sel.detectedPitches[1]
                          ELSE 0]

\* currentPitch_ * 0.8f + targetPitch * 0.2f
blockPitch(targetPitch) ==
    IF targetPitch > 0 THEN (currentPitch_ * 8 + targetPitch * 2) \div 10
    ELSE currentPitch_

\* setFrequency, setAmplitude (and reset), setInstrumentMode before rendering
configuredSynth(d, pitch) ==
    LET tuned == setFrequency(synth, pitch \div (2 ^ d.octaveShift))
        hasInputAudio == d.boostedRMS > 1000
        leveled == IF hasInputAudio /\ pitch > 0 THEN setAmplitude(tuned, 300)
                   ELSE IF ~hasInputAudio THEN synthReset(setAmplitude(tuned, 0))
                   ELSE setAmplitude(tuned, 0)
    IN setInstrumentMode(leveled, d.instrumentMode)

\* the buffer after the render loop over the output channels
contentRendered(d, voiced) ==
    [ch \in DOMAIN bufferContent |->
        IF ch <= totalNumOutputChannels THEN renderedContent(voiced)
        ELSE contentAtEntry(d)[ch]]

\* the assignments of the analysed path, from the values computed on the way:
\* w the window, p the detector's pitch state, sel the pitches, chord the chord
\* analyzeNotes returned, tgt the target, pitch the new currentPitch_, voiced
\* the configured synthesizer
BlockRendered(d, numSamples, w, p, sel, chord, tgt, pitch, voiced) ==
    /\ blockPath' = "analysed"
    /\ inputLevel_' = d.rawRMS
    /\ analysisBuffer_' = w.buf
    /\ writeIndex_' = w.w
    /\ bufferReady_' = w.ready
    /\ storeOutOfRange' = w.oob
    /\ samplesPushed' = samplesPushed + numSamples
    /\ UNCHANGED <<bufferSize_, hopSize_>>
    /\ lastPitch_' = p.lastPitch_
    /\ consecutiveDetections_' = p.consecutiveDetections_
    /\ pitchConfidence_' = p.pitchConfidence_
    /\ pitchReturned' = p.returned
    /\ IF sel.detectedPitches # <<>>
       THEN /\ analyzeNotesOf(NewChord(sel.detectedPitches))
            /\ currentDetectedNotes_' = PositiveNotes(sel.detectedPitches)
            /\ UNCHANGED <<chordLastInput, chordSwitches, chordResets>>
       ELSE UNCHANGED <<chordVars, currentDetectedNotes_>>
    /\ processorChord_' = chord
    /\ currentBassNote_' = tgt.bassNote
    /\ currentPitch_' = pitch
    /\ synth' = renderChannels(voiced, totalNumOutputChannels, numSamples)
    /\ bufferContent' = contentRendered(d, voiced)
    /\ outputLevel_' = IF totalNumOutputChannels > 0
                       THEN [of |-> renderedContent(voiced)]
                       ELSE outputLevel_
    /\ MidiOutput(d, chord, pitch, d.rawRMS)

BlockSynthesised(d, numSamples, w, p, sel, chord, tgt, pitch) ==
    BlockRendered(d, numSamples, w, p, sel, chord, tgt, pitch, configuredSynth(d, pitch))

BlockTargeted(d, numSamples, w, p, sel, chord, tgt) ==
    BlockSynthesised(d, numSamples, w, p, sel, chord, tgt, blockPitch(tgt.targetPitch))

BlockChordAnalysed(d, numSamples, w, p, sel, chord) ==
    BlockTargeted(d, numSamples, w, p, sel, chord, blockTarget(chord, sel))

BlockPitchesSelected(d, numSamples, w, p, sel) ==
    BlockChordAnalysed(d, numSamples, w, p, sel, blockChord(sel.detectedPitches))

BlockPitchDetected(d, numSamples, w, p) ==
    BlockPitchesSelected(d, numSamples, w, p, selectPitches(d, numSamples, p.returned))

\* pitchDetector_->detectPitch(gatedInput.data(), numSamples), after the window
BlockWindowed(d, numSamples, w) ==
    BlockPitchDetected(d, numSamples, w,
        detectPitch([lastPitch_ |-> lastPitch_,
                     consecutiveDetections_ |-> consecutiveDetections_,
                     pitchConfidence_ |-> pitchConfidence_,
                     returned |-> 0, analysed |-> FALSE],
                    w.ready, d))

BlockOfSamples(d, numSamples) ==
    BlockWindowed(d, numSamples,
        processOverlappingWindow(
            [buf |-> analysisBuffer_, w |-> writeIndex_,
             ready |-> bufferReady_, oob |-> storeOutOfRange],
            [i \in 1..numSamples |-> samplesPushed + i], bufferSize_, hopSize_))

\* the rest of processBlock: detection, chord analysis, synthesis, MIDI
BlockAnalysed(d) == BlockOfSamples(d, NumSamplesOf(d, currentBlockSize_))

\* processBlock(buffer, midiMessages)
ProcessBlock ==
    \E d \in ProcInputs :
        LET irregular == IF prepared /\ irregularEvents = 0 /\ d = steadyInput
                         THEN 0 ELSE 1
        IN /\ blocksProcessed < MaxBlocks
           /\ irregularEvents + irregular <= MaxIrregular
           /\ ~storeOutOfRange
           /\ blocksProcessed' = blocksProcessed + 1
           /\ irregularEvents' = irregularEvents + irregular
           /\ blockInput' = d
           /\ pitchBefore' = lastPitch_
           /\ IF ~(totalNumInputChannels > 0 /\ prepared) THEN BlockSkipped(d)
              ELSE IF d.inputNull THEN BlockNullInput(d)
              ELSE IF ~(d.boostedRMS > 1000) THEN BlockGateClosed(d)
              ELSE BlockAnalysed(d)
           /\ UNCHANGED <<prepared, currentBlockSize_, totalNumInputChannels,
                          totalNumOutputChannels, hostBlockSize, steadyInput>>

\* --------------------------------------------- YINPitchDetector: index audit
fftOrder_ == 10

\* the sizes the constructor gives the vectors
vectorSizes(bufferSize) ==
    [differenceBuffer_ |-> bufferSize \div 2,
     cumulativeBuffer_ |-> bufferSize \div 2,
     analysisBuffer_ |-> bufferSize,
     window_ |-> bufferSize,
     fftBuffer_ |-> (2 ^ fftOrder_) * 2,
     spectrum_ |-> (2 ^ fftOrder_) \div 2]

\* indices lo..hi of a vector, used by one loop
Access(vector, lo, hi) == [vector |-> vector, lo |-> lo, hi |-> hi]

\* detectMultiplePitches(buffer, numSamples) and findSpectralPeaks(spectrum_)
detectMultiplePitchesAccesses(numSamples, sizes) ==
    LET fftSize == 2 ^ fftOrder_
        copySize == MinOf(numSamples, fftSize)
    IN { Access("fftBuffer_", 0, sizes.fftBuffer_ - 1) }                   \* std::fill
       \cup (IF copySize > 0
             THEN { Access("fftBuffer_", 0, (copySize - 1) * 2 + 1),
                    Access("window_", 0, copySize - 1) }
             ELSE {})
       \cup { Access("fftBuffer_", 0, (fftSize \div 2 - 1) * 2 + 1),
              Access("spectrum_", 0, fftSize \div 2 - 1) }
       \cup (IF sizes.spectrum_ - 2 > 2
             THEN { Access("spectrum_", 0, sizes.spectrum_ - 1) }         \* i-2 .. i+2
             ELSE {})

\* the YIN branch of detectPitch on the bufferSize_ samples of the window:
\* the windowing loop, calculateDifference, the cumulative mean, the threshold
\* search, parabolicInterpolation and calculatePitchConfidence
yinAccesses(bufferSize, sizes) ==
    LET maxTau == MinOf(bufferSize \div 2, bufferSize \div 2)
    IN (IF bufferSize > 0
        THEN { Access("analysisBuffer_", 0, bufferSize - 1),
               Access("window_", 0, bufferSize - 1) }
        ELSE {})
       \cup (IF maxTau > 0 THEN { Access("differenceBuffer_", 0, maxTau - 1) } ELSE {})
       \cup { Access("cumulativeBuffer_", 0, 0) }
       \cup (IF sizes.differenceBuffer_ > 1
             THEN { Access("differenceBuffer_", 1, sizes.differenceBuffer_ - 1),
                    Access("cumulativeBuffer_", 1, sizes.differenceBuffer_ - 1) }
             ELSE {})
       \cup (IF sizes.cumulativeBuffer_ - 1 > 2
             THEN { Access("cumulativeBuffer_", 1, sizes.cumulativeBuffer_ - 1) }
             ELSE {})

\* storeSample without the contents: the write cursor of
\* processOverlappingWindow over one sample; top is the largest index a store
\* was made at
advanceCursor(c, size, hop) ==
    IF c.oob THEN c
    ELSE IF c.w < 0 \/ c.w >= size
         THEN [c EXCEPT !.oob = TRUE, !.top = MaxOf(c.top, c.w)]
    ELSE IF c.w + 1 >= hop
         THEN [w |-> size - hop, ready |-> TRUE, oob |-> FALSE, top |-> MaxOf(c.top, c.w)]
    ELSE [w |-> c.w + 1, ready |-> c.ready, oob |-> FALSE, top |-> MaxOf(c.top, c.w)]

RECURSIVE advanceCursorBy(_, _, _, _)
\* the cursor after count samples
advanceCursorBy(c, count, size, hop) ==
    IF count = 0 THEN c
    ELSE IF count = 1 THEN advanceCursor(c, size, hop)
    ELSE Then(advanceCursorBy(c, count \div 2, size, hop),
              LAMBDA half : advanceCursorBy(half, count - count \div 2, size, hop))

\* samplesPerBlock values given to prepareToPlay
IndexBlockSizes == {1, 2, 64, 256, 512, 1024}

\* buffer.getNumSamples() values
IndexNumSamples == {1, 2, 3, 64, 128, 129, 512, 513, 1024, 2048}

IndexConstructed(bufferSize) ==
    /\ vectorSize = vectorSizes(bufferSize)
    /\ cursor = [w |-> 0, ready |-> FALSE, oob |-> FALSE, top |-> 0]
    /\ indexFaults = {}
    /\ indexCalls = 0
    /\ indexBlock = [numSamples |-> 0, spectral |-> FALSE]

\* prepareToPlay(sampleRate, samplesPerBlock)
IndexInit ==
    \E samplesPerBlock \in IndexBlockSizes :
        IndexConstructed(pitchAnalysisSize(samplesPerBlock))

IndexIdle == IndexConstructed(pitchAnalysisSize(1))

\* the indices one processBlock call with significant input uses: line 1440
\* detectMultiplePitches(gatedInput, numSamples), then detectPitch.  spectral
\* tells whether the window's spectrum gave a pitch (no YIN branch then)
blockAccesses(numSamples, spectral, c, sizes) ==
    detectMultiplePitchesAccesses(numSamples, sizes)
    \cup { Access("analysisBuffer_", 0, c.top) }
    \cup (IF c.ready /\ ~c.oob
          THEN detectMultiplePitchesAccesses(sizes.analysisBuffer_, sizes)
               \cup (IF spectral THEN {} ELSE yinAccesses(sizes.analysisBuffer_, sizes))
          ELSE {})

outOfRange(accesses, sizes) ==
    {a \in accesses : a.lo < 0 \/ a.hi >= sizes[a.vector]}

IndexBlockWith(numSamples, spectral, c) ==
    /\ cursor' = c
    /\ indexFaults' = outOfRange(blockAccesses(numSamples, spectral, c, vectorSize),
                                 vectorSize)
    /\ indexBlock' = [numSamples |-> numSamples, spectral |-> spectral]

\* one processBlock call, as far as indices go; a run is not followed past an
\* out-of-range access
IndexBlock ==
    \E numSamples \in IndexNumSamples, spectral \in BOOLEAN :
        /\ indexFaults = {}
        /\ indexCalls < MaxIndexCalls
        /\ indexCalls' = indexCalls + 1
        /\ IndexBlockWith(numSamples, spectral,
               advanceCursorBy([cursor EXCEPT !.top = 0], numSamples,
                               vectorSize.analysisBuffer_,
                               hopSizeOf(vectorSize.analysisBuffer_)))
        /\ UNCHANGED vectorSize

\* ------------------------------- audio thread and message thread: telemetry
\* the members of GuitarToBassAudioProcessor declared std::atomic<float>;
\* currentPitch_ is declared float
AtomicMembers == {"inputLevel_", "outputLevel_"}

\* what a read that races with a write may return besides the value before
\* and the value after
Indeterminate == -1

\* the blocks processBlock is given, as far as the telemetry goes
RaceBlocks ==
    { [rawRMS |-> r, gateOpen |-> o, targetPitch |-> t] :
        r \in {0, 50000}, o \in BOOLEAN, t \in {0, 8241, 11000} }

\* the member the audio thread's next step writes
audioWrites(pc) ==
    CASE pc = "storeInputLevel" -> "inputLevel_"
      [] pc \in {"clearPitch", "smoothPitch"} -> "currentPitch_"
      [] pc = "storeOutputLevel" -> "outputLevel_"
      [] OTHER -> "none"

\* the value of currentPitch_ after the audio thread's next step
pitchAfter(pc, b) ==
    CASE pc = "clearPitch" -> 0
      [] pc = "smoothPitch" -> blockPitch(b.targetPitch)
      [] OTHER -> currentPitch_

\* a read of member v by the message thread that no atomic orders against the
\* audio thread's write of v
unsynchronized(v) == v \notin AtomicMembers /\ audioWrites(audioPc) = v

\* the values a read of currentPitch_ by the message thread can give
pitchReadValues ==
    IF unsynchronized("currentPitch_")
    THEN {currentPitch_, pitchAfter(audioPc, raceBlock), Indeterminate}
    ELSE {currentPitch_}

RaceConstructed ==
    /\ audioPc = "idle"
    /\ guiPc = "idle"
    /\ raceBlock = [rawRMS |-> 0, gateOpen |-> FALSE, targetPitch |-> 0]
    /\ guiPitch = 0
    /\ guiInputLevel = 0
    /\ guiOutputLevel = [of |-> "nothing"]
    /\ unsynchronizedReads = {}
    /\ raceBlocks = 0
    /\ timerCalls = 0

RaceInit == RaceConstructed

RaceIdle == RaceConstructed

guiLocals == <<guiPc, guiPitch, guiInputLevel, guiOutputLevel, unsynchronizedReads,
               timerCalls>>

audioLocals == <<audioPc, raceBlock, raceBlocks>>

telemetry == <<currentPitch_, inputLevel_, outputLevel_>>

procRest == <<prepared, currentBlockSize_, totalNumInputChannels, totalNumOutputChannels,
              hostBlockSize, lastPitch_, consecutiveDetections_, pitchConfidence_, synth,
              processorChord_, currentDetectedNotes_, currentBassNote_,
              currentMidiNote_, midiNoteOn_, midiNoteVelocity_, bufferContent,
              midiEvents, blockPath, blockInput, pitchBefore, pitchReturned,
              blocksProcessed, irregularEvents, steadyInput>>

\* processBlock is entered with a block
AudioBegin ==
    /\ audioPc = "idle"
    /\ raceBlocks < MaxRaceBlocks
    /\ \E b \in RaceBlocks : raceBlock' = b
    /\ raceBlocks' = raceBlocks + 1
    /\ audioPc' = "storeInputLevel"
    /\ UNCHANGED <<telemetry, guiLocals>>

\* line 1358: inputLevel_.store(rawInputRMS)
AudioStoreInputLevel ==
    /\ audioPc = "storeInputLevel"
    /\ inputLevel_' = raceBlock.rawRMS
    /\ audioPc' = IF raceBlock.gateOpen THEN "smoothPitch" ELSE "clearPitch"
    /\ UNCHANGED <<currentPitch_, outputLevel_, raceBlock, raceBlocks, guiLocals>>

\* line 1420: currentPitch_ = 0.0f, and the return of line 1430
AudioClearPitch ==
    /\ audioPc = "clearPitch"
    /\ currentPitch_' = pitchAfter(audioPc, raceBlock)
    /\ audioPc' = "idle"
    /\ UNCHANGED <<inputLevel_, outputLevel_, raceBlock, raceBlocks, guiLocals>>

\* lines 1528-1531: currentPitch_ = currentPitch_ * 0.8f + targetPitch * 0.2f
AudioSmoothPitch ==
    /\ audioPc = "smoothPitch"
    /\ currentPitch_' = pitchAfter(audioPc, raceBlock)
    /\ audioPc' = "storeOutputLevel"
    /\ UNCHANGED <<inputLevel_, outputLevel_, raceBlock, raceBlocks, guiLocals>>

\* line 1602: outputLevel_.store(outputRMS), and the rest of the call
AudioStoreOutputLevel ==
    /\ audioPc = "storeOutputLevel"
    /\ outputLevel_' = [of |-> IF currentPitch_ > 0 THEN "synth" ELSE "silence"]
    /\ audioPc' = "idle"
    /\ UNCHANGED <<currentPitch_, inputLevel_, raceBlock, raceBlocks, guiLocals>>

\* the 60 Hz timer fires
GuiBegin ==
    /\ guiPc = "idle"
    /\ timerCalls < MaxTimerCalls
    /\ timerCalls' = timerCalls + 1
    /\ guiPc' = "readPitch"
    /\ UNCHANGED <<telemetry, audioLocals, guiPitch, guiInputLevel, guiOutputLevel,
                   unsynchronizedReads>>

\* timerCallback line 295: getCurrentPitch(), return currentPitch_
GuiReadPitch ==
    /\ guiPc = "readPitch"
    /\ guiPitch' \in pitchReadValues
    /\ unsynchronizedReads' =
          IF unsynchronized("currentPitch_")
          THEN unsynchronizedReads \cup {"currentPitch_"}
          ELSE unsynchronizedReads
    /\ guiPc' = "readInputLevel"
    /\ UNCHANGED <<telemetry, audioLocals, guiInputLevel, guiOutputLevel, timerCalls>>

\* timerCallback line 307: getInputLevel(), the atomic's load
GuiReadInputLevel ==
    /\ guiPc = "readInputLevel"
    /\ guiInputLevel' = inputLevel_
    /\ unsynchronizedReads' =
          IF unsynchronized("inputLevel_")
          THEN unsynchronizedReads \cup {"inputLevel_"}
          ELSE unsynchronizedReads
    /\ guiPc' = "readOutputLevel"
    /\ UNCHANGED <<telemetry, audioLocals, guiPitch, guiOutputLevel, timerCalls>>

\* timerCallback line 308: getOutputLevel(), the atomic's load
GuiReadOutputLevel ==
    /\ guiPc = "readOutputLevel"
    /\ guiOutputLevel' = outputLevel_
    /\ unsynchronizedReads' =
          IF unsynchronized("outputLevel_")
          THEN unsynchronizedReads \cup {"outputLevel_"}
          ELSE unsynchronizedReads
    /\ guiPc' = "idle"
    /\ UNCHANGED <<telemetry, audioLocals, guiPitch, guiInputLevel, timerCalls>>

\* ------------------------------ MultiInstrumentSynthesizer: output samples
\* Units: oscillator samples (getNextSample) in thousandths, output samples in
\* millionths.  generateWavetable and generatePianoWavetable, the table taken
\* at 16 evenly spaced points of the cycle
wavetableOf(kind) ==
    IF kind = Piano
    THEN <<0, 421, 395, 317, 280, 182, 115, 46, 0, -46, -115, -182, -280, -317, -395, -421>>
    ELSE <<0, 417, 557, 489, 425, 377, 257, 105, 0, -105, -257, -377, -425, -489, -557, -417>>

\* getNextSample, wavetable case: linear interpolation at phase_
wavetableSample(s) ==
    LET table == wavetableOf(s.wavetable_)
        floatIndex == s.phase_ * Len(table)
        index1 == floatIndex \div 1000000
        index2 == (index1 + 1) % Len(table)
        frac == floatIndex - index1 * 1000000
    IN (table[index1 + 1] * (1000000 - frac) + table[index2 + 1] * frac) \div 1000000

\* getNextSample for the pass that takes s to t: the wavetable at the phase
\* before the advance, or lowPassState_ * 0.5f after the filter update
oscillatorSample(s, t) ==
    IF s.instrumentMode_ = SynthBass \/ s.instrumentMode_ = Piano
    THEN wavetableSample(s)
    ELSE IF t.lowPassState_ < 0 THEN -((-t.lowPassState_) \div 2000)
         ELSE t.lowPassState_ \div 2000

\* sample * envelope_ * amplitude_
scaledSample(sample, envelope, amplitude) ==
    LET magnitude == (((Abs(sample) * envelope) \div 1000) * amplitude) \div 1000
    IN IF sample < 0 THEN -magnitude ELSE magnitude

\* what is known of the samples a renderBlock call wrote: how many, the first
\* (and the oscillator sample it was made from), the last, the largest
\* difference of two successive ones, whether all were 0
NoOutput ==
    [count |-> 0, first |-> 0, firstOscillator |-> 0, last |-> 0, maxStep |-> 0,
     allZero |-> TRUE]

\* output[i] = x
writeSample(o, x, oscillator) ==
    [count |-> o.count + 1,
     first |-> IF o.count = 0 THEN x ELSE o.first,
     firstOscillator |-> IF o.count = 0 THEN oscillator ELSE o.firstOscillator,
     last |-> x,
     maxStep |-> IF o.count = 0 THEN 0 ELSE MaxOf(o.maxStep, Abs(x - o.last)),
     allZero |-> o.allZero /\ x = 0]

\* one pass of renderBlock's sample loop, with the sample it writes
renderPass(r) ==
    LET t == renderSample(r.s)
        oscillator == oscillatorSample(r.s, t)
    IN [s |-> t,
        out |-> writeSample(r.out, scaledSample(oscillator, t.envelope_, r.s.amplitude_),
                            oscillator)]

RECURSIVE renderPasses(_, _)
\* n passes of the sample loop
renderPasses(r, n) ==
    IF n = 0 THEN r
    ELSE IF n = 1 THEN renderPass(r)
    ELSE Then(renderPasses(r, n \div 2),
              LAMBDA half : renderPasses(half, n - n \div 2))

\* renderBlock without the test of amplitude_, at full amplitude
renderOutputNoSilence(s, numSamples) ==
    renderPasses([s |-> [s EXCEPT !.amplitude_ = 1000], out |-> NoOutput], numSamples).out

\* output[0..numSamples-1] after renderBlock(output, numSamples)
renderOutput(s, numSamples) ==
    IF s.amplitude_ <= 0
    THEN [NoOutput EXCEPT !.count = numSamples]
    ELSE renderPasses([s |-> s, out |-> NoOutput], numSamples).out

\* the arguments the synthesizer's operations are called with
SynthFrequencies == {0, 8241}

SynthAmplitudes == {0, 1000}

SynthModes == {AnalogBass, SynthBass, Piano}

SynthBlockSizes == {1, 64}

\* an operation and its argument
SynthOp(op, arg) == [op |-> op, arg |-> arg]

\* the last three operations
recentOps(trace, o) ==
    IF Len(trace) < 3 THEN Append(trace, o) ELSE Append(Tail(trace), o)

VoiceConstructed ==
    /\ synthOut = NoOutput
    /\ synthTrace = <<>>
    /\ synthBefore = SynthConstructed
    /\ synthOps = 0

VoiceInit == VoiceConstructed

VoiceIdle == VoiceConstructed

\* the call op(arg) taking the synthesizer to t and writing out
VoiceCall(op, arg, t, out) ==
    /\ synthOps < MaxSynthOps
    /\ synthOps' = synthOps + 1
    /\ synthBefore' = synth
    /\ synth' = t
    /\ synthOut' = out
    /\ synthTrace' = recentOps(synthTrace, SynthOp(op, arg))

SetFrequency ==
    \E frequency \in SynthFrequencies :
        VoiceCall("setFrequency", frequency, setFrequency(synth, frequency), synthOut)

SetAmplitude ==
    \E amplitude \in SynthAmplitudes :
        VoiceCall("setAmplitude", amplitude, setAmplitude(synth, amplitude), synthOut)

SetInstrumentMode ==
    \E mode \in SynthModes :
        VoiceCall("setInstrumentMode", mode, setInstrumentMode(synth, mode), synthOut)

Reset == VoiceCall("reset", 0, synthReset(synth), synthOut)

RenderBlock ==
    \E numSamples \in SynthBlockSizes :
        VoiceCall("renderBlock", numSamples, renderBlock(synth, numSamples),
                  renderOutput(synth, numSamples))

procRestVoice == <<prepared, currentBlockSize_, totalNumInputChannels,
                   totalNumOutputChannels, hostBlockSize, lastPitch_,
                   consecutiveDetections_, pitchConfidence_, currentPitch_,
                   processorChord_, currentDetectedNotes_, currentBassNote_,
                   inputLevel_, outputLevel_, currentMidiNote_, midiNoteOn_,
                   midiNoteVelocity_, bufferContent, midiEvents, blockPath, blockInput,
                   pitchBefore, pitchReturned, blocksProcessed, irregularEvents,
                   steadyInput>>

\* --------------------------------------------- YINPitchDetector: the analysis
\* Units: samples are integers; the cumulative mean normalized difference,
\* periods and confidences are in thousandths; FloatNaN, PosInf and NegInf
\* stand for the floats that are no number.
FloatNaN == -2000000000

PosInf == 2000000000

NegInf == -1999999999

\* a comparison that finds NaN below everything
floatLessNaNBelow(a, b) == a = FloatNaN \/ (b # FloatNaN /\ a < b)

\* a < b on floats: false when either is NaN
floatLess(a, b) == a # FloatNaN /\ b # FloatNaN /\ a < b

\* the detector of the analysis: bufferSize_ samples
YinBufferSize == 10

\* generateWindow for YinBufferSize entries, in hundredths
hannWindow == <<0, 12, 41, 75, 97, 97, 75, 41, 12, 0>>

\* q / r in thousandths, for 0 <= q and 0 < r
ratioThousandths(q, r) ==
    LET k == r \div 1000000 + 1
    IN (q \div r) * 1000 + (((q % r) \div k) * 1000) \div (r \div k)

\* audioBuffer[i] * window_[i], for i below count and below the window's size
applyWindow(audioBuffer, count) ==
    [i \in 1..Len(audioBuffer) |->
        IF i <= count /\ i <= Len(hannWindow)
        THEN LET product == audioBuffer[i] * hannWindow[i]
             IN IF product < 0 THEN -((-product) \div 100) ELSE product \div 100
        ELSE audioBuffer[i]]

\* calculateDifference: entries below maxTau are computed, the others stay
calculateDifference(audioBuffer, numSamples, differenceBuffer) ==
    LET maxTau == MinOf(YinBufferSize \div 2, numSamples \div 2)
    IN [t \in 1..Len(differenceBuffer) |->
           IF t <= maxTau
           THEN LET delta(j) == audioBuffer[j] - audioBuffer[j + t - 1]
                    Sum[j \in 0..maxTau] ==
                        IF j = 0 THEN 0 ELSE Sum[j - 1] + delta(j) * delta(j)
                IN Sum[maxTau]
           ELSE differenceBuffer[t]]

\* calculateCumulativeMeanNormalizedDifference: entry tau (at index tau + 1)
\* is differenceBuffer_[tau] / (runningSum / tau), a 0/0 when both are 0
calculateCumulativeMeanNormalizedDifference(differenceBuffer) ==
    LET Running[t \in 1..Len(differenceBuffer)] ==
            IF t = 1 THEN 0 ELSE Running[t - 1] + differenceBuffer[t]
    IN [t \in 1..Len(differenceBuffer) |->
           IF t = 1 THEN 1000
           ELSE IF Running[t] = 0 THEN FloatNaN
           ELSE ratioThousandths(differenceBuffer[t] * (t - 1), Running[t])]

\* no descent: the first lag below the threshold is returned
localMinimumNone(cumulativeBuffer, tau) == tau

RECURSIVE localMinimumFrom(_, _)
\* the while loop of getAbsoluteThreshold
localMinimumFrom(cumulativeBuffer, tau) ==
    IF tau + 1 < Len(cumulativeBuffer)
       /\ floatLess(cumulativeBuffer[tau + 2], cumulativeBuffer[tau + 1])
    THEN localMinimumFrom(cumulativeBuffer, tau + 1)
    ELSE tau

RECURSIVE absoluteThresholdFrom(_, _, _)
\* the for loop of getAbsoluteThreshold, from tau on
absoluteThresholdFrom(cumulativeBuffer, threshold, tau) ==
    IF ~(tau < Len(cumulativeBuffer) - 1) THEN -1
    ELSE IF floatLess(cumulativeBuffer[tau + 1], threshold)
    THEN localMinimumFrom(cumulativeBuffer, tau)
    ELSE absoluteThresholdFrom(cumulativeBuffer, threshold, tau + 1)

getAbsoluteThreshold(cumulativeBuffer, threshold) ==
    absoluteThresholdFrom(cumulativeBuffer, threshold, 2)

\* parabolicInterpolation: the refined period in thousandths
parabolicInterpolation(cumulativeBuffer, peakIndex) ==
    IF peakIndex <= 0 \/ peakIndex >= Len(cumulativeBuffer) - 1 THEN peakIndex * 1000
    ELSE LET y1 == cumulativeBuffer[peakIndex]
             y2 == cumulativeBuffer[peakIndex + 1]
             y3 == cumulativeBuffer[peakIndex + 2]
             numerator == y3 - y1
             denominator == 2 * (2 * y2 - y1 - y3)
         IN IF FloatNaN \in {y1, y2, y3} THEN FloatNaN
            ELSE IF denominator = 0
                 THEN IF numerator = 0 THEN FloatNaN
                      ELSE IF numerator > 0 THEN PosInf ELSE NegInf
            ELSE LET magnitude == (Abs(numerator) * 1000) \div Abs(denominator)
                 IN peakIndex * 1000
                    + (IF (numerator < 0) = (denominator < 0) THEN magnitude ELSE -magnitude)

\* calculatePitchConfidence, in thousandths
calculatePitchConfidence(cumulativeBuffer, periodIndex) ==
    IF periodIndex <= 0 \/ periodIndex >= Len(cumulativeBuffer) THEN 0
    ELSE LET yinValue == cumulativeBuffer[periodIndex + 1]
         IN IF yinValue = FloatNaN THEN FloatNaN
            ELSE IF yinValue < 100
                 THEN MaxOf(0, MinOf(1000, 900 + (100 - yinValue) * 10))
            ELSE MaxOf(0, MinOf(1000, 1000 - MinOf(yinValue, 1000)))

\* sampleRate_ / refinedPeriod in centi-Hertz
periodFrequency(refinedPeriod) ==
    IF refinedPeriod = FloatNaN THEN FloatNaN
    ELSE IF refinedPeriod \in {PosInf, NegInf} THEN 0
    ELSE IF refinedPeriod = 0 THEN PosInf
    ELSE LET magnitude == ((sampleRate_ * 10000) \div Abs(refinedPeriod)) * 10
         IN IF refinedPeriod < 0 THEN -magnitude ELSE magnitude

\* the YIN branch of detectPitch on the windowed samples: the difference and
\* cumulative buffers it leaves, periodIndex, and the result as Yin gives it
yinAnalysis(windowedBuffer, numSamples, differenceBuffer) ==
    LET difference == calculateDifference(windowedBuffer, numSamples, differenceBuffer)
        cumulative == calculateCumulativeMeanNormalizedDifference(difference)
        periodIndex == getAbsoluteThreshold(cumulative, 80)
        refinedPeriod == IF periodIndex = -1 THEN 0
                         ELSE parabolicInterpolation(cumulative, periodIndex)
    IN [differenceBuffer_ |-> difference,
        cumulativeBuffer_ |-> cumulative,
        periodIndex |-> periodIndex,
        refinedPeriod |-> refinedPeriod,
        yin |-> IF periodIndex = -1 THEN NoYin
                ELSE IF floatLess(0, refinedPeriod)
                THEN Yin(periodFrequency(refinedPeriod),
                         calculatePitchConfidence(cumulative, periodIndex))
                ELSE [found |-> TRUE, refined |-> FALSE, frequency |-> 0, confidence |-> 0]]

\* preprocessAudio: pre-emphasis with 0.97 and removal of the mean, the
\* result scaled by 100 * numSamples
preprocessAudio(input) ==
    LET n == Len(input)
        emphasised == [i \in 1..n |->
                          100 * input[i] - 97 * (IF i = 1 THEN 0 ELSE input[i - 1])]
        DcSum[i \in 0..n] == IF i = 0 THEN 0 ELSE DcSum[i - 1] + emphasised[i]
    IN [i \in 1..n |-> n * emphasised[i] - DcSum[n]]

\* detectPitchWithConfidence(audioBuffer, numSamples, confidence)
detectPitchWithConfidence(audioBuffer, differenceBuffer) ==
    LET numSamples == Len(audioBuffer)
        processedAudio == applyWindow(preprocessAudio(audioBuffer), numSamples)
        a == yinAnalysis(processedAudio, MinOf(numSamples, YinBufferSize), differenceBuffer)
        frequency == IF a.periodIndex = -1 THEN 0
                     ELSE IF a.refinedPeriod # FloatNaN /\ a.refinedPeriod <= 0 THEN 0
                     ELSE periodFrequency(a.refinedPeriod)
        confidence == IF a.periodIndex = -1 THEN 0
                      ELSE IF a.refinedPeriod # FloatNaN /\ a.refinedPeriod <= 0 THEN 0
                      ELSE calculatePitchConfidence(a.cumulativeBuffer_, a.periodIndex)
    IN [a EXCEPT !.yin = [found |-> a.periodIndex # -1, refined |-> frequency # 0,
                          frequency |-> frequency, confidence |-> confidence]]

\* ------------------------------------------ YINPitchDetector: spectral peaks
\* spectrum_[i] of a spectrum given by its first bins, the others being 0
spectrumBin(spectrum, i) == IF i >= 0 /\ i < Len(spectrum) THEN spectrum[i + 1] ELSE 0

\* i * binWidth in centi-Hertz, binWidth = sampleRate_ / fftSize
binFrequency(i) == (i * sampleRate_ * 100) \div (2 ^ fftOrder_)

\* std::max(0.1f, maxSpectrum * 0.12f)
dynamicThreshold(spectrum) ==
    LET maxSpectrum == CHOOSE v \in {spectrum[i] : i \in 1..Len(spectrum)} :
                           \A i \in 1..Len(spectrum) : spectrum[i] <= v
    IN MaxOf(100, (maxSpectrum * 12) \div 100)

\* the bins the first loop of findSpectralPeaks pushes
peakBins(spectrum) ==
    {i \in 2..(Len(spectrum) - 1) :
        /\ i < (2 ^ fftOrder_) \div 2 - 2
        /\ ~(binFrequency(i) < minFreq_ * 100 \/ binFrequency(i) > maxFreq_ * 100)
        /\ spectrumBin(spectrum, i) > spectrumBin(spectrum, i - 1)
        /\ spectrumBin(spectrum, i) > spectrumBin(spectrum, i + 1)
        /\ spectrumBin(spectrum, i) > spectrumBin(spectrum, i - 2)
        /\ spectrumBin(spectrum, i) > spectrumBin(spectrum, i + 2)
        /\ spectrumBin(spectrum, i) > dynamicThreshold(spectrum)}

RECURSIVE strongestFirst(_, _)
\* std::sort by amplitude, strongest first
strongestFirst(spectrum, bins) ==
    IF bins = {} THEN <<>>
    ELSE LET top == CHOOSE i \in bins :
                        \A j \in bins : spectrumBin(spectrum, j) <= spectrumBin(spectrum, i)
         IN <<top>> \o strongestFirst(spectrum, bins \ {top})

\* no peak counts as a harmonic
isHarmonicNever(frequency, pitches) == FALSE

\* frequency is within 10 Hz of 2, 3 or 4 times a pitch already kept
isHarmonic(frequency, pitches) ==
    \E k \in 1..Len(pitches), harmonic \in 2..4 :
        Abs(frequency - pitches[k] * harmonic) < 1000

RECURSIVE keepFundamentals(_, _, _)
\* the second loop of findSpectralPeaks, from the k-th peak on
keepFundamentals(peaks, k, pitches) ==
    IF k > Len(peaks) \/ Len(pitches) >= 3 THEN pitches
    ELSE keepFundamentals(peaks, k + 1,
                          IF isHarmonic(binFrequency(peaks[k]), pitches) THEN pitches
                          ELSE Append(pitches, binFrequency(peaks[k])))

findSpectralPeaks(spectrum) ==
    keepFundamentals(strongestFirst(spectrum, peakBins(spectrum)), 1, <<>>)

\* ------------------------------------- YINPitchDetector: analysis of a window
\* the window a pattern fills periodically
windowOf(pattern, size) == [i \in 1..size |-> pattern[((i - 1) % Len(pattern)) + 1]]

AllZero(window) == \A i \in 1..Len(window) : window[i] = 0

\* the contents of analysisBuffer_ given to the analysis of detectPitch, in
\* hundredths
YinWindows ==
    { windowOf(p, YinBufferSize) :
        p \in { <<0>>, <<100>>, <<0, 100>>, <<100, -100>>, <<100, 0, 0>>,
                <<0, 0, 0, 0, 100>>, <<0, 809, 0, 130, 0, 100, 0, 237, 0, 0>> } }

\* the buffers given to detectPitchWithConfidence: of the window's size, and shorter
YinBuffers ==
    { windowOf(p, n) :
        p \in { <<0>>, <<1>>, <<0, 1>>, <<1, -1>>, <<1, 0, 0>>, <<0, 0, 0, 0, 1>> },
        n \in {YinBufferSize, 4} }

\* the magnitudes the transform gives for a window that is not all zero: the
\* first 14 bins, in thousandths
YinSpectra ==
    { [i \in 1..14 |-> 0],
      [i \in 1..14 |-> IF i = 3 THEN 5000 ELSE 0],
      [i \in 1..14 |-> IF i = 3 THEN 5000 ELSE IF i = 5 THEN 4000
                       ELSE IF i = 8 THEN 3000 ELSE 0],
      [i \in 1..14 |-> 2000] }

\* the spectrum of a window: the transform of the all-zero window is all zero
spectrumOf(window, drawn) == IF AllZero(window) THEN [i \in 1..14 |-> 0] ELSE drawn

zeroBuffer == [i \in 1..(YinBufferSize \div 2) |-> 0]

\* a detector as constructed, and one that has been tracking the low E string
YinDetectors ==
    { [lastPitch_ |-> 0, consecutiveDetections_ |-> 0, pitchConfidence_ |-> 0,
       differenceBuffer_ |-> zeroBuffer, cumulativeBuffer_ |-> zeroBuffer],
      LET a == yinAnalysis(applyWindow(windowOf(<<100, 0, 0>>, YinBufferSize), YinBufferSize),
                           YinBufferSize, zeroBuffer)
      IN [lastPitch_ |-> 8241, consecutiveDetections_ |-> 3, pitchConfidence_ |-> 950,
          differenceBuffer_ |-> a.differenceBuffer_,
          cumulativeBuffer_ |-> a.cumulativeBuffer_] }

NoAnalysis ==
    [op |-> "none", window |-> <<>>, windowPitches |-> <<>>, periodIndex |-> -1,
     frequency |-> 0, confidence |-> 0, returned |-> 0, before |-> 0]

YinInit ==
    /\ yinDetector \in YinDetectors
    /\ yinResult = NoAnalysis
    /\ yinCalls = 0

YinIdle ==
    /\ yinDetector = [lastPitch_ |-> 0, consecutiveDetections_ |-> 0, pitchConfidence_ |-> 0,
                      differenceBuffer_ |-> zeroBuffer, cumulativeBuffer_ |-> zeroBuffer]
    /\ yinResult = NoAnalysis
    /\ yinCalls = 0

\* detectPitch once the window is ready, with analysisBuffer_ holding window:
\* a the YIN analysis (not run when the spectrum gave pitches), p the pitch state
YinDetected(window, windowPitches, a, p) ==
    /\ yinDetector' =
          [lastPitch_ |-> p.lastPitch_,
           consecutiveDetections_ |-> p.consecutiveDetections_,
           pitchConfidence_ |-> p.pitchConfidence_,
           differenceBuffer_ |-> IF windowPitches = <<>> THEN a.differenceBuffer_
                                 ELSE yinDetector.differenceBuffer_,
           cumulativeBuffer_ |-> IF windowPitches = <<>> THEN a.cumulativeBuffer_
                                 ELSE yinDetector.cumulativeBuffer_]
    /\ yinResult' =
          [op |-> "detectPitch", window |-> window, windowPitches |-> windowPitches,
           periodIndex |-> IF windowPitches = <<>> THEN a.periodIndex ELSE -1,
           frequency |-> pitchCandidate([windowPitches |-> windowPitches, yin |-> a.yin])[1],
           confidence |-> pitchCandidate([windowPitches |-> windowPitches, yin |-> a.yin])[2],
           returned |-> p.returned, before |-> yinDetector.lastPitch_]

YinAnalysed(window, windowPitches, a) ==
    YinDetected(window, windowPitches, a,
        detectPitch([lastPitch_ |-> yinDetector.lastPitch_,
                     consecutiveDetections_ |-> yinDetector.consecutiveDetections_,
                     pitchConfidence_ |-> yinDetector.pitchConfidence_,
                     returned |-> 0, analysed |-> FALSE],
                    TRUE, [windowPitches |-> windowPitches, yin |-> a.yin]))

DetectPitch ==
    \E window \in YinWindows, drawn \in YinSpectra :
        /\ yinCalls < MaxYinCalls
        /\ yinCalls' = yinCalls + 1
        /\ YinAnalysed(window, findSpectralPeaks(spectrumOf(window, drawn)),
                       yinAnalysis(applyWindow(window, YinBufferSize), YinBufferSize,
                                   yinDetector.differenceBuffer_))

YinMeasured(audioBuffer, a) ==
    /\ yinDetector' = [yinDetector EXCEPT !.differenceBuffer_ = a.differenceBuffer_,
                                          !.cumulativeBuffer_ = a.cumulativeBuffer_]
    /\ yinResult' =
          [op |-> "detectPitchWithConfidence", window |-> audioBuffer,
           windowPitches |-> <<>>, periodIndex |-> a.periodIndex,
           frequency |-> a.yin.frequency, confidence |-> a.yin.confidence,
           returned |-> a.yin.frequency, before |-> yinDetector.lastPitch_]

DetectPitchWithConfidence ==
    \E audioBuffer \in YinBuffers :
        /\ yinCalls < MaxYinCalls
        /\ yinCalls' = yinCalls + 1
        /\ YinMeasured(audioBuffer,
                       detectPitchWithConfidence(audioBuffer, yinDetector.differenceBuffer_))

\* ------------------------------- YINPitchDetector: a steady new observation
\* the pitches a detector may be holding, and the observations that may follow
RelockHeld == {7000, 8241, 11000, 14683, 22000, 44000}

RelockFrequencies == {7000, 8241, 8731, 9250, 16481, 20000, 50000}

RelockConfidences == {700, 950}

\* a detector that has been tracking pitch p
TrackingPitch(p) ==
    [lastPitch_ |-> p, consecutiveDetections_ |-> minConsecutiveDetections_,
     pitchConfidence_ |-> 950, returned |-> p, analysed |-> TRUE]

RelockInit ==
    \E p \in RelockHeld, f \in RelockFrequencies, c \in RelockConfidences :
        /\ p # f
        /\ relockHeld = p
        /\ relockObservation = Yin(f, c)
        /\ relockDetector = TrackingPitch(p)

RelockIdle ==
    /\ relockHeld = 0
    /\ relockObservation = NoYin
    /\ relockDetector = [lastPitch_ |-> 0, consecutiveDetections_ |-> 0,
                         pitchConfidence_ |-> 0, returned |-> 0, analysed |-> FALSE]

\* one more detectPitch call whose window is ready, the spectrum giving no
\* candidate and the YIN analysis giving the steady observation
RelockAnalysis ==
    /\ relockDetector.consecutiveDetections_ < MaxDetections
    /\ relockDetector' = detectPitch(relockDetector, TRUE,
                                     [windowPitches |-> <<>>, yin |-> relockObservation])
    /\ UNCHANGED <<relockHeld, relockObservation>>

\* ------------------------------------------------ functions checked by value
\* the values a cumulative entry takes: 0/0, below, at and above the threshold
CumulativeValues == {FloatNaN, 20, 50, 80, 200}

\* cumulativeBuffer_ as calculateCumulativeMeanNormalizedDifference leaves it:
\* entry 0 is 1, and the entries that are 0/0 (the running sum still 0) come
\* before all the others
CumulativeBuffers ==
    UNION { { c \in [1..size -> CumulativeValues \cup {1000}] :
                /\ c[1] = 1000
                /\ \A i \in 2..size : c[i] # 1000
                /\ \A i \in 3..size : c[i] = FloatNaN => c[i - 1] = FloatNaN }
            : size \in 3..MaxThresholdSize }

\* the magnitude a bin takes when it is not 0, in thousandths: rising with the
\* bin, falling with it, or mixed; no two bins share a magnitude
BinMagnitude(shape, i) ==
    IF shape = "rising" THEN 1000 + 100 * i
    ELSE IF shape = "falling" THEN 3000 - 100 * i
    ELSE 1000 + 100 * ((i * 7) % 13)

\* spectrum_ after the transform: some of the bins 2 .. MaxPeakBin carry a
\* magnitude, the others are 0
PeakSpectra ==
    { [k \in 1..(MaxPeakBin + 3) |->
          IF (k - 1) \in on THEN BinMagnitude(shape, k - 1) ELSE 0]
      : on \in SUBSET (2..MaxPeakBin), shape \in {"rising", "falling", "mixed"} }

PeaksInit ==
    /\ pureOp = "none"
    /\ pureInput \in PeakSpectra
    /\ pureOutput = <<>>

\* return findSpectralPeaks(spectrum_)
FindSpectralPeaks ==
    /\ pureOp = "none"
    /\ pureOp' = "findSpectralPeaks"
    /\ pureOutput' = findSpectralPeaks(pureInput)
    /\ UNCHANGED pureInput

\* the chord root given to mapChordRootToBass: a note, or no note (-1)
BassInit ==
    /\ pureOp = "none"
    /\ pureInput \in {[DefaultNote EXCEPT !.midiNote = n] : n \in (-1)..MaxRootNote}
    /\ pureOutput = <<>>

\* return mapChordRootToBass(chordRoot)
MapChordRootToBass ==
    /\ pureOp = "none"
    /\ pureOp' = "mapChordRootToBass"
    /\ pureOutput' = mapChordRootToBass(pureInput)
    /\ UNCHANGED pureInput

ThresholdInit ==
    /\ pureOp = "none"
    /\ pureInput \in CumulativeBuffers
    /\ pureOutput = <<>>

\* periodIndex = getAbsoluteThreshold(0.08f)
GetAbsoluteThreshold ==
    /\ pureOp = "none"
    /\ pureOp' = "getAbsoluteThreshold"
    /\ pureOutput' = getAbsoluteThreshold(pureInput, 80)
    /\ UNCHANGED pureInput

PureIdle ==
    /\ pureOp = "none"
    /\ pureInput = <<>>
    /\ pureOutput = <<>>

\* ------------------------------------------------------------ specifications
ChordNext ==
    \/ AnalyzeNotes /\ UNCHANGED <<windowVars, selectVars, procVars, indexVars, raceVars, voiceVars, yinVars, relockVars, pureVars>>
    \/ ChordRootDetector_reset
          /\ UNCHANGED <<windowVars, selectVars, procVars, indexVars, raceVars, voiceVars, yinVars, relockVars, pureVars>>

InitChord == ChordInit /\ WindowIdle /\ SelectIdle /\ ProcIdle /\ IndexIdle /\ RaceIdle /\ VoiceIdle /\ YinIdle /\ RelockIdle /\ PureIdle

SpecChord == InitChord /\ [][ChordNext]_vars

WindowNext == PushBlock /\ UNCHANGED <<chordVars, selectVars, procVars, indexVars, raceVars, voiceVars, yinVars, relockVars, pureVars>>

InitWindow == ChordIdle /\ WindowInit /\ SelectIdle /\ ProcIdle /\ IndexIdle /\ RaceIdle /\ VoiceIdle /\ YinIdle /\ RelockIdle /\ PureIdle

SpecWindow == InitWindow /\ [][WindowNext]_vars

SelectNext ==
    \/ SelectRoot /\ UNCHANGED <<chordVars, windowVars, procVars, indexVars, raceVars, voiceVars, yinVars, relockVars, pureVars>>
    \/ SelectLowest /\ UNCHANGED <<chordVars, windowVars, procVars, indexVars, raceVars, voiceVars, yinVars, relockVars, pureVars>>

InitSelect == ChordIdle /\ WindowIdle /\ SelectInit /\ ProcIdle /\ IndexIdle /\ RaceIdle /\ VoiceIdle /\ YinIdle /\ RelockIdle /\ PureIdle

SpecSelect == InitSelect /\ [][SelectNext]_vars

ProcNext ==
    \/ PrepareToPlay /\ UNCHANGED <<selectVars, indexVars, raceVars, voiceVars, yinVars, relockVars, pureVars>>
    \/ ProcessBlock /\ UNCHANGED <<selectVars, indexVars, raceVars, voiceVars, yinVars, relockVars, pureVars>>

InitProc == ChordIdle /\ WindowIdle /\ SelectIdle /\ ProcInit /\ IndexIdle /\ RaceIdle /\ VoiceIdle /\ YinIdle /\ RelockIdle /\ PureIdle

SpecProc == InitProc /\ [][ProcNext]_vars

IndexNext ==
    IndexBlock /\ UNCHANGED <<chordVars, windowVars, selectVars, procVars, raceVars, voiceVars, yinVars, relockVars, pureVars>>

InitIndex == ChordIdle /\ WindowIdle /\ SelectIdle /\ ProcIdle /\ IndexInit /\ RaceIdle /\ VoiceIdle /\ YinIdle /\ RelockIdle /\ PureIdle

SpecIndex == InitIndex /\ [][IndexNext]_vars

raceOthers == <<chordVars, windowVars, selectVars, procRest, indexVars, voiceVars, yinVars, relockVars, pureVars>>

RaceNext ==
    \/ AudioBegin /\ UNCHANGED raceOthers
    \/ AudioStoreInputLevel /\ UNCHANGED raceOthers
    \/ AudioClearPitch /\ UNCHANGED raceOthers
    \/ AudioSmoothPitch /\ UNCHANGED raceOthers
    \/ AudioStoreOutputLevel /\ UNCHANGED raceOthers
    \/ GuiBegin /\ UNCHANGED raceOthers
    \/ GuiReadPitch /\ UNCHANGED raceOthers
    \/ GuiReadInputLevel /\ UNCHANGED raceOthers
    \/ GuiReadOutputLevel /\ UNCHANGED raceOthers

InitRace == ChordIdle /\ WindowIdle /\ SelectIdle /\ ProcIdle /\ IndexIdle /\ RaceInit /\ VoiceIdle /\ YinIdle /\ RelockIdle /\ PureIdle

SpecRace == InitRace /\ [][RaceNext]_vars

voiceOthers ==
    <<chordVars, windowVars, selectVars, procRestVoice, indexVars, raceVars, yinVars, relockVars, pureVars>>

SynthNext ==
    \/ SetFrequency /\ UNCHANGED voiceOthers
    \/ SetAmplitude /\ UNCHANGED voiceOthers
    \/ SetInstrumentMode /\ UNCHANGED voiceOthers
    \/ Reset /\ UNCHANGED voiceOthers
    \/ RenderBlock /\ UNCHANGED voiceOthers

InitSynth ==
    ChordIdle /\ WindowIdle /\ SelectIdle /\ ProcIdle /\ IndexIdle /\ RaceIdle /\ VoiceInit
    /\ YinIdle /\ RelockIdle /\ PureIdle

SpecSynth == InitSynth /\ [][SynthNext]_vars

yinOthers ==
    <<chordVars, windowVars, selectVars, procVars, indexVars, raceVars, voiceVars,
      relockVars, pureVars>>

YinNext ==
    \/ DetectPitch /\ UNCHANGED yinOthers
    \/ DetectPitchWithConfidence /\ UNCHANGED yinOthers

InitYin ==
    ChordIdle /\ WindowIdle /\ SelectIdle /\ ProcIdle /\ IndexIdle /\ RaceIdle /\ VoiceIdle
    /\ YinInit /\ RelockIdle /\ PureIdle

SpecYin == InitYin /\ [][YinNext]_vars

relockOthers ==
    <<chordVars, windowVars, selectVars, procVars, indexVars, raceVars, voiceVars,
      yinVars, pureVars>>

RelockNext == RelockAnalysis /\ UNCHANGED relockOthers

InitRelock ==
    ChordIdle /\ WindowIdle /\ SelectIdle /\ ProcIdle /\ IndexIdle /\ RaceIdle /\ VoiceIdle
    /\ YinIdle /\ RelockInit /\ PureIdle

\* the host keeps calling processBlock, so the analysis keeps being made
SpecRelock == InitRelock /\ [][RelockNext]_vars /\ WF_vars(RelockNext)

pureOthers ==
    <<chordVars, windowVars, selectVars, procVars, indexVars, raceVars, voiceVars,
      yinVars, relockVars>>

ThresholdNext == GetAbsoluteThreshold /\ UNCHANGED pureOthers

InitThreshold ==
    ChordIdle /\ WindowIdle /\ SelectIdle /\ ProcIdle /\ IndexIdle /\ RaceIdle /\ VoiceIdle
    /\ YinIdle /\ RelockIdle /\ ThresholdInit

SpecThreshold == InitThreshold /\ [][ThresholdNext]_vars

PeaksNext == FindSpectralPeaks /\ UNCHANGED pureOthers

InitPeaks ==
    ChordIdle /\ WindowIdle /\ SelectIdle /\ ProcIdle /\ IndexIdle /\ RaceIdle /\ VoiceIdle
    /\ YinIdle /\ RelockIdle /\ PeaksInit

SpecPeaks == InitPeaks /\ [][PeaksNext]_vars

BassNext == MapChordRootToBass /\ UNCHANGED pureOthers

InitBass ==
    ChordIdle /\ WindowIdle /\ SelectIdle /\ ProcIdle /\ IndexIdle /\ RaceIdle /\ VoiceIdle
    /\ YinIdle /\ RelockIdle /\ BassInit

SpecBass == InitBass /\ [][BassNext]_vars

\* ------------------------------------------------------------------ claims

\* C1 (debounce): once a root R has been the lowest candidate of more than 10
\* consecutive analyzeNotes calls (so R is committed), one call whose lowest
\* candidate is a valid note more than 2 semitones from R, followed only by
\* calls with R, leaves the root of the committed and of the returned chord at
\* R, on the outlier call and on every later call.
OutlierAt(i) ==
    LET R == rootHistory[i - 1]
    IN /\ R >= 0
       /\ \A j \in (i - 11)..(i - 1) : rootHistory[j] = R
       /\ rootHistory[i] >= 0
       /\ Abs(rootHistory[i] - R) > chordChangeThreshold_
       /\ \A j \in (i + 1)..Len(rootHistory) : rootHistory[j] = R

C1_DebounceKeepsRoot ==
    \A i \in 12..Len(rootHistory) :
        OutlierAt(i) =>
            /\ currentChord_.rootNote.midiNote = rootHistory[i - 1]
            /\ chordReturned.rootNote.midiNote = rootHistory[i - 1]

C1_Witness ==
    \E i \in 12..Len(rootHistory) : OutlierAt(i) /\ Len(rootHistory) > i

\* C2 as stated: a call whose stability test fails returns the committed chord
\* unchanged and modifies nothing but the ring, its write index and the call
\* counter (so bufferFull_ and pendingChord_ are unchanged too).
C2_OnlyRingIndexCounter ==
    [][ (currentSampleCount_' = currentSampleCount_ + 1 /\ ~chordStableResult')
            => /\ chordReturned' = currentChord_
               /\ currentChord_' = currentChord_
               /\ pendingChord_' = pendingChord_
               /\ bufferFull_' = bufferFull_ ]_vars

\* C2 amended: a call whose stability test fails returns the committed chord
\* unchanged; besides the ring, its write index and the call counter it may set
\* bufferFull_, which becomes true exactly when the write index wraps to 0.
C2_FailedTestKeepsChord ==
    [][ (currentSampleCount_' = currentSampleCount_ + 1 /\ ~chordStableResult')
            => /\ chordReturned' = currentChord_
               /\ currentChord_' = currentChord_
               /\ pendingChord_' = pendingChord_
               /\ bufferFull_' = (bufferFull_ \/ bufferWriteIndex_' = 0) ]_vars

\* a failed test while a valid chord is committed: the call returned that chord
C2_Witness ==
    /\ currentSampleCount_ > stabilityBufferSize_
    /\ ~chordStableResult
    /\ isValid(currentChord_) /\ currentChord_.isStable
    /\ rootHistory[Len(rootHistory)] # currentChord_.rootNote.midiNote

\* C9: after construction or reset() the committed chord is invalid and not
\* stable, and none of the first 9 analyzeNotes calls commits a chord.
C9_NoCommitBeforeRingFull ==
    currentSampleCount_ < stabilityBufferSize_ =>
        /\ ~isValid(currentChord_)
        /\ ~currentChord_.isStable
        /\ (currentSampleCount_ >= 1 => ~chordStableResult)

\* nine calls with one valid root after a reset
C9_Witness ==
    /\ chordResets = 1
    /\ currentSampleCount_ = stabilityBufferSize_ - 1
    /\ \A j \in 1..Len(rootHistory) : rootHistory[j] = rootHistory[1] /\ rootHistory[1] >= 0

\* C3 as stated: once at least bufferSize_ samples have been pushed, the entries
\* of analysisBuffer_ below the write cursor are the writeIndex_ most recent
\* samples, contiguous and in arrival order.
C3_WindowHoldsRecentRun ==
    (samplesPushed >= bufferSize_ /\ ~storeOutOfRange) =>
        \A i \in 1..writeIndex_ :
            analysisBuffer_[i] = samplesPushed - writeIndex_ + i

\* C8 (root selection): when some candidate has frequency > 0 the chord root is
\* the note of the lowest such frequency; with no such candidate (the empty
\* list included) it is the invalid note, midiNote -1.  findLowestPitch returns
\* the minimum element, and 0 for the empty list.
PositiveCandidates == {candidates[i] : i \in {j \in 1..Len(candidates) : candidates[j] > 0}}

C8_RootIsLowest ==
    /\ "root" \in selectCalls =>
          IF PositiveCandidates # {}
          THEN /\ selectedRoot.frequency \in PositiveCandidates
               /\ \A f \in PositiveCandidates : selectedRoot.frequency <= f
               /\ selectedRoot = Note(selectedRoot.frequency, 1000)
               /\ selectedRoot.midiNote >= 0
          ELSE selectedRoot.midiNote = -1
    /\ "lowest" \in selectCalls =>
          IF candidates = <<>> THEN selectedLowest = 0
          ELSE /\ \E i \in 1..Len(candidates) : candidates[i] = selectedLowest
               /\ \A i \in 1..Len(candidates) : selectedLowest <= candidates[i]

\* three candidates whose lowest is neither first nor last, both functions applied
C8_Witness ==
    /\ Len(candidates) = 3
    /\ candidates[2] > 0 /\ candidates[2] < candidates[1] /\ candidates[2] < candidates[3]
    /\ selectCalls = {"root", "lowest"}
    /\ selectedRoot.frequency = candidates[2] /\ selectedLowest = candidates[2]

\* C4 as stated: when a processBlock call returns, whatever path it took, every
\* output channel holds synthesized audio or silence (rendered or cleared by
\* the processor); none still holds the block's input samples.
C4_EveryPathWritesOutput ==
    blockPath # "none" =>
        \A ch \in 1..totalNumOutputChannels :
            bufferContent[ch] \in {"synth", "silence", "cleared"}

\* C5: a processBlock call that computes a boosted, gated input RMS not above
\* the 0.001 floor sets the synthesizer's amplitude, phase, analog phase, filter
\* state and envelope to 0 and currentPitch_ to 0, and calls neither detector:
\* lastPitch_, consecutiveDetections_, the stability ring with its index, fill
\* flag and call counter, and the committed chord are unchanged.
C5_GateClosedSilences ==
    [][ ( /\ blocksProcessed' = blocksProcessed + 1
          /\ prepared /\ totalNumInputChannels > 0
          /\ ~blockInput'.inputNull
          /\ blockInput'.boostedRMS <= 1000 )
        => /\ blockPath' = "gateClosed"
           /\ synth'.amplitude_ = 0
           /\ synth'.phase_ = 0 /\ synth'.analogPhase_ = 0
           /\ synth'.lowPassState_ = 0 /\ synth'.envelope_ = 0
           /\ currentPitch_' = 0
           /\ UNCHANGED <<lastPitch_, consecutiveDetections_, pitchConfidence_,
                          writeIndex_, analysisBuffer_, samplesPushed,
                          stabilityBuffer_, bufferWriteIndex_, bufferFull_,
                          currentSampleCount_, currentChord_, processorChord_>> ]_vars

\* a block exactly at the floor after blocks that established a pitch, ran the
\* chord detector and left the synthesizer sounding
C5_Witness ==
    /\ blockPath = "gateClosed"
    /\ blockInput.boostedRMS = 1000
    /\ pitchBefore > 0 /\ lastPitch_ = pitchBefore
    /\ currentSampleCount_ >= 3
    /\ synth.frequency_ > 0 /\ synth.envelopeTarget_ > 0
    /\ synth.envelope_ = 0 /\ currentPitch_ = 0

\* the window analysis of block d finds no period
NoPeriodFound(d) == d.windowPitches = <<>> /\ ~d.yin.found

\* the frequency the analysis of block d gives is outside [minFreq_, maxFreq_]
OutsideRange(d) ==
    pitchCandidate(d)[1] < minFreq_ * 100 \/ pitchCandidate(d)[1] > maxFreq_ * 100

\* C7: in detectPitch, an analysis that finds no period, or whose frequency is
\* outside [minFreq_, maxFreq_], leaves lastPitch_ as it was and returns it.
C7_RejectedAnalysisHoldsPitch ==
    [][ ( /\ blocksProcessed' = blocksProcessed + 1
          /\ blockPath' = "analysed"
          /\ (NoPeriodFound(blockInput') \/ OutsideRange(blockInput')) )
        => /\ lastPitch_' = lastPitch_
           /\ pitchReturned' = lastPitch_ ]_vars

\* a 600 Hz result of an analysis that ran while a positive pitch was held
C7_Witness ==
    /\ blockPath = "analysed"
    /\ bufferReady_
    /\ pitchBefore > 0
    /\ blockInput.yin.found
    /\ pitchCandidate(blockInput)[1] > maxFreq_ * 100
    /\ pitchReturned = pitchBefore /\ lastPitch_ = pitchBefore

\* C6 (indices in range): after prepareToPlay with any samplesPerBlock, no
\* processBlock call with numSamples >= 1 uses an index outside the size of
\* window_, analysisBuffer_, fftBuffer_, spectrum_, differenceBuffer_ or
\* cumulativeBuffer_.
C6_NoIndexOutOfRange == indexFaults = {}

\* C10 (atomic telemetry): in no interleaving of processBlock with
\* timerCallback does the message thread read currentPitch_, inputLevel_ or
\* outputLevel_ other than through an atomic that orders the read against
\* the audio thread's write.
C10_NoUnsynchronizedRead == unsynchronizedReads = {}

\* the last processBlock call reached generateMidiOutput
MidiGenerated(path) == path \in {"analysed", "skipped"}

\* C11 (MIDI only in piano mode): a block whose MidiBuffer receives a note-on
\* has instrument mode Piano; in a block with mode AnalogBass or SynthBass
\* generateMidiOutput adds nothing, or one note-off of the note that was on,
\* and midiNoteOn_ is false after it.
C11_NoteOnOnlyInPiano ==
    [][ blocksProcessed' = blocksProcessed + 1
        => /\ (\E i \in 1..Len(midiEvents') : midiEvents'[i].type = "noteOn")
                 => blockInput'.instrumentMode = Piano
           /\ (blockInput'.instrumentMode # Piano /\ MidiGenerated(blockPath'))
                 => /\ midiEvents' = (IF midiNoteOn_ THEN <<noteOff(currentMidiNote_)>>
                                      ELSE <<>>)
                    /\ ~midiNoteOn_' ]_vars

\* a SynthBass block that turned off the note a Piano block had turned on
C11_Witness ==
    /\ blockPath = "analysed"
    /\ blockInput.instrumentMode = SynthBass
    /\ Len(midiEvents) = 1
    /\ midiEvents[1].type = "noteOff" /\ midiEvents[1].note >= 0
    /\ ~midiNoteOn_ /\ currentMidiNote_ = -1

\* the largest magnitude of an oscillator sample in the mode, in thousandths
oscillatorPeak(mode) ==
    IF mode = AnalogBass THEN 500
    ELSE LET table == wavetableOf(mode)
         IN CHOOSE v \in {Abs(table[i]) : i \in 1..Len(table)} :
                \A i \in 1..Len(table) : Abs(table[i]) <= v

\* envelopeRate_ (0.01) times the oscillator peak, in millionths
envelopeStepBound(mode) == 10 * oscillatorPeak(mode)

\* the last k calls were these operations
LastOps(names) ==
    /\ Len(synthTrace) >= Len(names)
    /\ \A i \in 1..Len(names) :
          synthTrace[Len(synthTrace) - Len(names) + i].op = names[i]

\* setAmplitude(0), setAmplitude(1), renderBlock with a positive frequency set
AmplitudeRestored ==
    /\ LastOps(<<"setAmplitude", "setAmplitude", "renderBlock">>)
    /\ synthTrace[1].arg = 0 /\ synthTrace[2].arg = 1000
    /\ synth.frequency_ > 0

\* C12 (click-free amplitude change): with a positive frequency set, in the
\* renderBlock that follows setAmplitude(0) and setAmplitude(1) the first
\* sample differs from the 0 rendered at amplitude 0, and each sample from
\* the one before it, by no more than envelopeRate_ times the oscillator
\* peak, whatever the envelope level was.
C12_ClickFreeAmplitudeChange ==
    AmplitudeRestored
        => /\ Abs(synthOut.first) <= envelopeStepBound(synth.instrumentMode_)
           /\ synthOut.maxStep <= envelopeStepBound(synth.instrumentMode_)

\* C13 (reset): after reset() phase_, analogPhase_, lowPassState_ and
\* envelope_ are 0, and the first sample of the renderBlock that follows is
\* within envelopeRate_ times the oscillator sample times amplitude_ of 0, in
\* every mode and for every frequency and amplitude set before.
C13_ResetLeavesNoArtifact ==
    /\ LastOps(<<"reset">>)
          => /\ synth.phase_ = 0 /\ synth.analogPhase_ = 0
             /\ synth.lowPassState_ = 0 /\ synth.envelope_ = 0
    /\ LastOps(<<"reset", "renderBlock">>)
          => Abs(synthOut.first)
                <= scaledSample(Abs(synthOut.firstOscillator), 1000000 \div 100,
                                synthBefore.amplitude_)

\* an analog voice that had sounded, reset and rendered again: the first
\* sample is one envelope step of the filtered sawtooth
C13_Witness ==
    /\ LastOps(<<"renderBlock", "reset", "renderBlock">>)
    /\ synth.instrumentMode_ = AnalogBass
    /\ synth.frequency_ > 0 /\ synth.amplitude_ > 0
    /\ synthOut.firstOscillator < 0
    /\ synthOut.first < 0

\* C14 (silence at amplitude 0): a renderBlock call made while amplitude_ is
\* 0 writes 0 to each of its numSamples samples, whatever the frequency, the
\* mode, the envelope and the phase.
C14_ZeroAmplitudeIsSilent ==
    (LastOps(<<"renderBlock">>) /\ synthBefore.amplitude_ = 0)
        => /\ synthOut.allZero
           /\ synthOut.first = 0 /\ synthOut.last = 0
           /\ synthOut.count = synthTrace[Len(synthTrace)].arg

\* the second of two 64-sample blocks at amplitude 0, with the note still
\* held and the envelope open
C14_Witness ==
    /\ LastOps(<<"setAmplitude", "renderBlock", "renderBlock">>)
    /\ synthBefore.amplitude_ = 0
    /\ synth.frequency_ > 0 /\ synth.envelope_ > 0
    /\ synthOut.count = 64 /\ synthOut.allZero

\* C15 (setFrequency frame): setFrequency leaves phase_, analogPhase_,
\* lowPassState_, envelope_, amplitude_ and the wavetable as they were, for
\* every argument, 0 included.
C15_SetFrequencyKeepsPhase ==
    LastOps(<<"setFrequency">>)
        => /\ synth.phase_ = synthBefore.phase_
           /\ synth.analogPhase_ = synthBefore.analogPhase_
           /\ synth.lowPassState_ = synthBefore.lowPassState_
           /\ synth.envelope_ = synthBefore.envelope_
           /\ synth.amplitude_ = synthBefore.amplitude_
           /\ synth.wavetable_ = synthBefore.wavetable_
           /\ synth.instrumentMode_ = synthBefore.instrumentMode_

\* setFrequency(0) on a voice in mid-cycle with the envelope open
C15_Witness ==
    /\ LastOps(<<"renderBlock", "setFrequency">>)
    /\ synthTrace[Len(synthTrace)].arg = 0
    /\ synthBefore.frequency_ > 0 /\ synth.frequency_ = 0
    /\ synth.envelopeTarget_ = 0
    /\ synth.phase_ > 0 /\ synth.envelope_ > 0

\* C16: an analysis window of bufferSize_ samples that is all zero yields no
\* pitch: the difference function is zero at every lag, the cumulative value
\* at every lag from 1 on is the 0/0 that no comparison finds below the
\* threshold, getAbsoluteThreshold returns -1, detectPitchWithConfidence
\* returns frequency 0 with confidence 0, and detectPitch leaves lastPitch_
\* as it was and returns it
SilentWindow ==
    /\ yinResult.op # "none"
    /\ Len(yinResult.window) = YinBufferSize
    /\ AllZero(yinResult.window)

C16_SilentWindowYieldsNoPitch ==
    SilentWindow =>
        /\ AllZero(yinDetector.differenceBuffer_)
        /\ \A t \in 2..Len(yinDetector.cumulativeBuffer_) :
               /\ yinDetector.cumulativeBuffer_[t] = FloatNaN
               /\ ~floatLess(yinDetector.cumulativeBuffer_[t], 80)
        /\ getAbsoluteThreshold(yinDetector.cumulativeBuffer_, 80) = -1
        /\ yinResult.periodIndex = -1
        /\ yinResult.frequency = 0
        /\ yinResult.confidence = 0
        /\ yinResult.op = "detectPitchWithConfidence" => yinResult.returned = 0
        /\ yinResult.op = "detectPitch" =>
               /\ yinDetector.lastPitch_ = yinResult.before
               /\ yinResult.returned = yinResult.before

C16_Witness ==
    /\ SilentWindow
    /\ yinResult.op = "detectPitch"
    /\ yinResult.before > 0
    /\ yinDetector.lastPitch_ = yinResult.before

\* C17: for every host block size the analysis window size chosen by
\* prepareToPlay lies in 512..2048: never below 512, never above 2048
C17_WindowSizeClamped ==
    /\ bufferSize_ >= 512
    /\ bufferSize_ <= 2048
    /\ Len(analysisBuffer_) = bufferSize_

\* C18: an analyzeNotes call commits its new chord (isStable set, currentChord_
\* replaced by it) exactly when the ring has been filled at least once and at
\* least 8 of its 10 entries, counted with the new chord already written,
\* either hold a valid root within 2 semitones of the new valid root or are
\* invalid together with an invalid new chord; otherwise currentChord_ stays
RingAgrees(entry, newChord) ==
    IF newChord.rootNote.midiNote >= 0
    THEN /\ entry.rootNote.midiNote >= 0
         /\ entry.rootNote.midiNote - newChord.rootNote.midiNote \in -2..2
    ELSE entry.rootNote.midiNote < 0

AgreeingEntries(ring, newChord) ==
    Cardinality({i \in 1..Len(ring) : RingAgrees(ring[i], newChord)})

C18_CommitRule ==
    [][ currentSampleCount_' = currentSampleCount_ + 1
        => LET newChord == NewChord(chordLastInput')
               filled == Len(rootHistory') >= stabilityBufferSize_
               agreed == AgreeingEntries(stabilityBuffer_', newChord) >= 8
           IN /\ chordStableResult' <=> (filled /\ agreed)
              /\ (filled /\ agreed)
                    => /\ currentChord_' = [newChord EXCEPT !.isStable = TRUE]
                       /\ chordReturned' = currentChord_'
              /\ ~(filled /\ agreed)
                    => /\ currentChord_' = currentChord_
                       /\ chordReturned' = currentChord_ ]_vars

C18_Witness ==
    /\ chordStableResult
    /\ currentChord_ = chordReturned
    /\ isValid(currentChord_) /\ currentChord_.isStable
    /\ bufferFull_
    /\ AgreeingEntries(stabilityBuffer_, currentChord_) \in {8, 9}

\* C19: a processBlock call changes lastPitch_ only when its analysis brought
\* consecutiveDetections_ to at least minConsecutiveDetections_, by an
\* increment of one in that call; the call that follows a rejected analysis
\* never changes lastPitch_, nor does a call that finds the count below 2
C19_PitchNeedsThreeDetections ==
    [][ blocksProcessed' = blocksProcessed + 1
        => /\ lastPitch_' # lastPitch_
                 => /\ blockPath' = "analysed"
                    /\ consecutiveDetections_' = consecutiveDetections_ + 1
                    /\ consecutiveDetections_' >= minConsecutiveDetections_
           /\ consecutiveDetections_ + 1 < minConsecutiveDetections_
                 => lastPitch_' = lastPitch_
           /\ ( /\ blockPath = "analysed"
                /\ (NoPeriodFound(blockInput) \/ OutsideRange(blockInput)) )
                 => lastPitch_' = lastPitch_ ]_vars

C19_Witness ==
    /\ blockPath = "analysed"
    /\ consecutiveDetections_ = minConsecutiveDetections_
    /\ pitchBefore = 0
    /\ lastPitch_ = pitchCandidate(blockInput)[1]
    /\ lastPitch_ > 0
    /\ pitchReturned = lastPitch_

\* C20: on each analysis in detectPitch consecutiveDetections_ grows by exactly
\* one when the observation's confidence exceeds confidenceThreshold_ and its
\* frequency ratio to lastPitch_ lies within [0.48, 2.1] (or no pitch is held),
\* and is reset to 0 in every other case
ConfidentWithinOctave(d, lastPitch) ==
    /\ pitchCandidate(d)[2] > confidenceThreshold_
    /\ lastPitch > 0 => /\ pitchCandidate(d)[1] * 100 >= 48 * lastPitch
                        /\ pitchCandidate(d)[1] * 10 <= 21 * lastPitch

C20_CountFollowsConfidenceAndRatio ==
    [][ ( /\ blocksProcessed' = blocksProcessed + 1
          /\ blockPath' = "analysed"
          /\ bufferReady_' )
        => consecutiveDetections_' =
              IF ConfidentWithinOctave(blockInput', lastPitch_)
              THEN consecutiveDetections_ + 1 ELSE 0 ]_vars

\* C21: after a ready event (cursor at bufferSize_ - hopSize_) the next shift
\* comes only after hopSize_ further samples: a push of fewer samples than
\* hopSize_ only appends them, moving the cursor by their number and leaving
\* the entries below the cursor where they were
C21_HopSpacing ==
    [][ ( /\ bufferReady_
          /\ writeIndex_ = bufferSize_ - hopSize_
          /\ samplesPushed' > samplesPushed
          /\ samplesPushed' - samplesPushed < hopSize_ )
        => /\ writeIndex_' = writeIndex_ + (samplesPushed' - samplesPushed)
           /\ \A i \in 1..writeIndex_ : analysisBuffer_'[i] = analysisBuffer_[i] ]_vars

\* C22: for every bufferSize_ prepareToPlay can pass and every sequence of
\* pushed samples, each store into analysisBuffer_ is at a cursor within
\* 0 .. bufferSize_ - 1
C22_WriteCursorInBounds == ~storeOutOfRange

\* C23: a detector holding p > 0 whose every analysis yields a frequency f in
\* [minFreq_, maxFreq_] with confidence above the threshold eventually holds
\* a pitch nearer to f than p was, whatever the ratio f/p
C23_HeldPitchRelocks ==
    <>(Abs(relockDetector.lastPitch_ - relockObservation.frequency)
          < Abs(relockHeld - relockObservation.frequency))

\* C24: in Piano mode, with a note on, the first processBlock call whose input
\* is below the gate floor emits the note-off of that note and leaves
\* midiNoteOn_ false
C24_NoHangingNote ==
    [][ ( /\ blocksProcessed' = blocksProcessed + 1
          /\ midiNoteOn_
          /\ blockInput'.instrumentMode = Piano
          /\ ~blockInput'.inputNull
          /\ ~(blockInput'.boostedRMS > 1000) )
        => /\ \E i \in 1..Len(midiEvents') : midiEvents'[i] = noteOff(currentMidiNote_)
           /\ ~midiNoteOn_' ]_vars

\* C25: over every run the MIDI events alternate note-on, note-off, note-on,
\* ... starting with a note-on, each note-off carries the note of the note-on
\* before it, and in every state midiNoteOn_ holds exactly when
\* currentMidiNote_ >= 0
RECURSIVE MidiWalk(_, _, _)
\* the events from the i-th on, read by a listener in state w
MidiWalk(events, i, w) ==
    IF i > Len(events) THEN w
    ELSE IF events[i].type = "noteOn"
    THEN MidiWalk(events, i + 1,
                  [ok |-> w.ok /\ ~w.on /\ events[i].note >= 0,
                   on |-> TRUE, note |-> events[i].note])
    ELSE MidiWalk(events, i + 1,
                  [ok |-> w.ok /\ w.on /\ events[i].note = w.note,
                   on |-> FALSE, note |-> -1])

C25_MidiMonophony ==
    /\ [](midiNoteOn_ <=> currentMidiNote_ >= 0)
    /\ [][ blocksProcessed' = blocksProcessed + 1
           => LET w == MidiWalk(midiEvents', 1,
                                [ok |-> TRUE, on |-> midiNoteOn_,
                                 note |-> currentMidiNote_])
              IN /\ w.ok
                 /\ w.on = midiNoteOn_'
                 /\ w.note = currentMidiNote_' ]_vars

C25_Witness ==
    /\ Len(midiEvents) = 2
    /\ midiEvents[1].type = "noteOff"
    /\ midiEvents[2].type = "noteOn"
    /\ midiEvents[1].note # midiEvents[2].note
    /\ midiNoteOn_
    /\ currentMidiNote_ = midiEvents[2].note

TargetPitchOf(d, numSamples, returned, chord) ==
    blockTarget(chord, selectPitches(d, numSamples, returned)).targetPitch

C27_PitchWithinTargets ==
    [][ ( /\ blocksProcessed' = blocksProcessed + 1
          /\ blockPath' = "analysed" )
        => LET targetPitch ==
                   TargetPitchOf(blockInput', NumSamplesOf(blockInput', currentBlockSize_),
                                 pitchReturned', processorChord_')
           IN /\ (currentPitch_ = 0 /\ targetPitch > 0) => currentPitch_' = targetPitch
              /\ (currentPitch_ > 0 /\ targetPitch > 0)
                    => /\ currentPitch_' >= MinOf(currentPitch_, targetPitch)
                       /\ currentPitch_' <= MaxOf(currentPitch_, targetPitch) ]_vars

\* C28: getAbsoluteThreshold returns -1 exactly when no lag in 2 .. size-2 has
\* its cumulative value below the threshold; otherwise, t being the first such
\* lag, it returns the first lag from t on at which the values stop strictly
\* decreasing (the next value is not smaller, or the lag is the last index),
\* a lag whose value is below the threshold
LagValue(c, tau) == c[tau + 1]

LagsBelow(c, threshold) ==
    {tau \in 2..(Len(c) - 2) : LagValue(c, tau) # FloatNaN /\ LagValue(c, tau) < threshold}

FirstLag(lags) == CHOOSE t \in lags : \A u \in lags : t <= u

C28_ThresholdPicksLocalMinimum ==
    pureOp = "getAbsoluteThreshold" =>
        LET c == pureInput
            below == LagsBelow(c, 80)
        IN /\ pureOutput = -1 <=> below = {}
           /\ below # {} =>
                 /\ pureOutput \in FirstLag(below)..(Len(c) - 1)
                 /\ \A k \in FirstLag(below)..(pureOutput - 1) :
                        LagValue(c, k + 1) < LagValue(c, k)
                 /\ \/ pureOutput = Len(c) - 1
                    \/ LagValue(c, pureOutput + 1) >= LagValue(c, pureOutput)
                 /\ LagValue(c, pureOutput) # FloatNaN
                 /\ LagValue(c, pureOutput) < 80

C28_Witness ==
    /\ pureOp = "getAbsoluteThreshold"
    /\ LagsBelow(pureInput, 80) # {}
    /\ pureOutput > FirstLag(LagsBelow(pureInput, 80))
    /\ pureOutput < Len(pureInput) - 1

\* C29: findSpectralPeaks returns at most 3 frequencies, each the frequency of
\* a qualifying peak within [minFreq_, maxFreq_], in descending magnitude, none
\* within 10 Hz of 2, 3 or 4 times a frequency returned before it; a
\* qualifying peak is left out only when it is such a harmonic of a stronger
\* returned peak or when 3 stronger peaks were returned
BinOf(spectrum, frequency) ==
    CHOOSE i \in 0..Len(spectrum) : binFrequency(i) = frequency

MagnitudeOf(spectrum, frequency) == spectrumBin(spectrum, BinOf(spectrum, frequency))

HarmonicOf(frequency, fundamental) ==
    \E harmonic \in 2..4 : Abs(frequency - fundamental * harmonic) < 1000

C29_PeaksAreFundamentals ==
    pureOp = "findSpectralPeaks" =>
        LET spectrum == pureInput
            out == pureOutput
            qualifying == {binFrequency(i) : i \in peakBins(spectrum)}
            returned == {out[k] : k \in 1..Len(out)}
        IN /\ Len(out) <= 3
           /\ returned \subseteq qualifying
           /\ \A k \in 1..Len(out) : out[k] >= minFreq_ * 100 /\ out[k] <= maxFreq_ * 100
           /\ \A j \in 1..Len(out), k \in 1..Len(out) :
                 j < k => /\ MagnitudeOf(spectrum, out[j]) > MagnitudeOf(spectrum, out[k])
                          /\ ~HarmonicOf(out[k], out[j])
           /\ \A q \in qualifying \ returned :
                 \/ \E k \in 1..Len(out) :
                       /\ MagnitudeOf(spectrum, out[k]) > MagnitudeOf(spectrum, q)
                       /\ HarmonicOf(q, out[k])
                 \/ /\ Len(out) = 3
                    /\ \A k \in 1..3 :
                          MagnitudeOf(spectrum, out[k]) > MagnitudeOf(spectrum, q)

C29_Witness ==
    /\ pureOp = "findSpectralPeaks"
    /\ Len(pureOutput) = 2
    /\ Cardinality(peakBins(pureInput)) = 3

\* C30: for a chord root with midiNote >= 0, mapChordRootToBass returns one
\* of the four entries of the bass tuning (28, 33, 38, 43), and no entry of the
\* tuning has a pitch class nearer to the root's pitch class, in circular
\* semitone distance, than the entry returned
CircularDistance(a, b) ==
    LET d == ((a % 12) - (b % 12) + 12) % 12
    IN IF d > 6 THEN 12 - d ELSE d

C30_BassNoteIsNearest ==
    (pureOp = "mapChordRootToBass" /\ pureInput.midiNote >= 0) =>
        /\ pureOutput.midiNote \in {28, 33, 38, 43}
        /\ \E i \in 1..Len(bassTuning_) : bassTuning_[i] = pureOutput
        /\ \A i \in 1..Len(bassTuning_) :
              CircularDistance(pureOutput.midiNote, pureInput.midiNote)
                  <= CircularDistance(bassTuning_[i].midiNote, pureInput.midiNote)

====
